---- MODULE Spec2Model ----
(***************************************************************************)
(* Model of the watch commands of the mcpctl command-line client:          *)
(* the SSE decoder (client.py), the watch loops and the policy reconciler  *)
(* and renderer (commands/__init__.py), and dispatch (cli.py).             *)
(*                                                                         *)
(* JSON values are tokens (strings): "null", "true"/"false", the integer   *)
(* tokens of IntTokens, "{}" and "[]" for containers, any other token is a *)
(* JSON string.  A JSON object is a function from the keys it carries to   *)
(* tokens; nested objects are flattened with dotted keys and the items of  *)
(* a list live under "<key>.items".  Text is a sequence of tokens.         *)
(***************************************************************************)
EXTENDS Integers, Sequences, FiniteSets, TLC

VARIABLES
    cmd,        \* the watch command that runs
    as_json,    \* --json
    use_color,  \* sys.stdout.isatty() and not as_json
    max_events, \* --max-events (marketplace watch)
    pc,         \* position of the command
    response,   \* the HTTP response of the subscribe request
    conn,       \* the connection held by stream_sse
    state,      \* policy posture: server id -> summary
    out,        \* what was printed to stdout, one entry per print call
    err,        \* what was printed to stderr
    exit_code,  \* what dispatch returned
    count,      \* _marketplace_watch's count
    pulled,     \* payloads the loop pulled from stream_sse
    lines,      \* the raw lines stream_sse read from the transport
    log,        \* history: one entry per call of _render_policy_event
    paging      \* APIClient.paginate: its parameters and its position

vars == <<cmd, as_json, use_color, max_events, pc, response, conn, state, out,
          err, exit_code, count, pulled, lines, log, paging>>

\* no paginated request is running
NoPaging == [pc |-> "none"]

----------------------------------------------------------------------------
(* Bounds of the model *)

MaxEvents == 2

----------------------------------------------------------------------------
(* JSON tokens and Python's view of them *)

None == "null"

IntTokens == {"-1", "0", "1", "2", "5", "7", "9", "11", "42", "55", "1001"}

FloatTokens == {"9.5"}

EmptyMap == [x \in {} |-> None]

TypeOf(v) ==
    IF v = None THEN "none"
    ELSE IF v \in {"true", "false"} THEN "bool"
    ELSE IF v \in IntTokens THEN "int"
    ELSE IF v \in FloatTokens THEN "float"
    ELSE IF v = "{}" THEN "dict"
    ELSE IF v = "[]" THEN "list"
    ELSE "str"

IsStr(v) == TypeOf(v) = "str"

IsBool(v) == TypeOf(v) = "bool"

\* isinstance(v, int): Python's bool is a subclass of int
IsInt(v) == TypeOf(v) \in {"int", "bool"}

\* dict.get(key): None when the key is missing
Get(d, k) == IF k \in DOMAIN d THEN d[k] ELSE None

\* dict.get(key, default)
GetD(d, k, default) == IF k \in DOMAIN d THEN d[k] ELSE default

Put(d, k, v) == (k :> v) @@ d

\* truth value of a token
Truthy(v) == v \notin {None, "false", "0", "", "{}", "[]"}

\* Python compares True == 1 and False == 0
PyNum(v) == IF v = "true" THEN "1" ELSE IF v = "false" THEN "0" ELSE v

PyEq(a, b) == PyNum(a) = PyNum(b)

\* str(v) / f"{v}"
PyStr(v) ==
    IF v = "true" THEN "True"
    ELSE IF v = "false" THEN "False"
    ELSE IF v = None THEN "None"
    ELSE v

\* str.upper() on the vocabulary of the model
Upper(t) ==
    CASE t = "decision" -> "DECISION"
      [] t = "attestation" -> "ATTESTATION"
      [] t = "unknown" -> "UNKNOWN"
      [] t = "None" -> "NONE"
      [] OTHER -> t

\* status.replace("_", "-").lower() on the vocabulary of the model
Normalize(t) ==
    CASE t = "Needs_Review" -> "needs-review"
      [] t = "TRUSTED" -> "trusted"
      [] OTHER -> t

RECURSIVE Join(_, _)
\* sep.join(parts), each part a text
Join(parts, sep) ==
    IF Len(parts) = 0 THEN <<>>
    ELSE IF Len(parts) = 1 THEN parts[1]
    ELSE parts[1] \o <<sep>> \o Join(Tail(parts), sep)

\* pat in text
Contains(text, pat) ==
    \E i \in 0..(Len(text) - Len(pat)) :
        \A j \in 1..Len(pat) : text[i + j] = pat[j]

----------------------------------------------------------------------------
(* _colorize_status *)

RESET == "\\033[0m"
GREEN == "\\033[32m"
YELLOW == "\\033[33m"
RED == "\\033[31m"
CYAN == "\\033[36m"

ColorizeStatus(status, color) ==
    LET normalized == Normalize(status)
        code == CASE normalized = "trusted" -> GREEN
                  [] normalized = "untrusted" -> RED
                  [] normalized \in {"unknown", "pending", "stale"} -> YELLOW
                  [] OTHER -> CYAN
    IN IF ~color THEN <<normalized>> ELSE <<code, normalized, RESET>>

----------------------------------------------------------------------------
(* _filter_signal_notes: a note is a text; a note that is not a string is  *)
(* the one-token text of its JSON value                                    *)

NoteIsStr(note) == ~(Len(note) = 1 /\ ~IsStr(note[1]))

StartsWith(text, tok) == Len(text) >= 1 /\ text[1] = tok

\* faulty variant: only the prefixes are looked for
IsSignalNote_PrefixOnly(note) ==
    /\ NoteIsStr(note)
    /\ \/ StartsWith(note, "vm:attestation")
       \/ StartsWith(note, "attestation:")
       \/ StartsWith(note, "provider-key:")

IsSignalNote(note) ==
    /\ NoteIsStr(note)
    /\ \/ StartsWith(note, "vm:attestation")
       \/ StartsWith(note, "attestation:")
       \/ Contains(note, <<"fallback">>)
       \/ StartsWith(note, "provider-key:")

FilterSignalNotes(event) ==
    IF Get(event, "notes") # "[]" THEN <<>>
    ELSE SelectSeq(event["notes.items"], IsSignalNote)

----------------------------------------------------------------------------
(* _render_policy_event.  The accumulator a holds the entity's summary     *)
(* (a.s) and the change records so far (a.c); a change record carries the  *)
(* field it is about beside its text.                                      *)

Change(field, text) == [field |-> field, text |-> text]

\* faulty variant: a diffed string field yields a record though its value did not change
StepStrArrow_ReportsUnchanged(value, key, label, a) ==
    IF IsStr(value) THEN
        LET previous == Get(a.s, key) IN
        [s |-> Put(a.s, key, value),
         c |-> IF previous = None
               THEN Append(a.c, Change(key, label \o <<value>>))
               ELSE Append(a.c, Change(key, label \o <<previous, "->", value>>))]
    ELSE a

\* backend, trust_lifecycle_state, provider_key_posture.state:
\* "label value" on first sight, "label previous -> value" on change
StepStrArrow(value, key, label, a) ==
    IF IsStr(value) THEN
        LET previous == Get(a.s, key) IN
        [s |-> Put(a.s, key, value),
         c |-> IF previous = None
               THEN Append(a.c, Change(key, label \o <<value>>))
               ELSE IF previous # value
               THEN Append(a.c, Change(key, label \o <<previous, "->", value>>))
               ELSE a.c]
    ELSE a

\* faulty variant: a context field that takes another value yields a record
StepStrContext_Reports(value, key, a) ==
    IF IsStr(value) THEN
        [s |-> Put(a.s, key, value),
         c |-> IF Get(a.s, key) # value
               THEN Append(a.c, Change(key, <<key, value>>)) ELSE a.c]
    ELSE a

\* candidate_backend and the other context fields that must be strings
StepStrContext(value, key, a) ==
    IF IsStr(value) THEN [a EXCEPT !.s = Put(a.s, key, value)] ELSE a

StepBackend(event, a) ==
    StepStrArrow(Get(event, "backend"), "backend", <<"backend">>, a)

StepCandidate(event, a) ==
    StepStrContext(Get(event, "candidate_backend"), "candidate_backend", a)

StepFallback(event, a) ==
    LET fallback_backend == Get(event, "fallback_backend") IN
    IF IsStr(fallback_backend) THEN
        [s |-> Put(a.s, "fallback_backend", fallback_backend),
         c |-> Append(a.c, Change("fallback_backend",
                                  <<"fallback", "->", fallback_backend>>))]
    ELSE a

\* faulty variant: the active instance is not recorded
StepActiveInstance_Skip(event, a) == a

StepActiveInstance(event, a) ==
    StepStrContext(Get(event, "instance_id"), "active_instance", a)

\* faulty variant: the record of a changed attestation status omits the previous one
StepAttestation_NoPrevious(event, a, color) ==
    LET att_status == Get(event, "attestation_status") IN
    IF IsStr(att_status) THEN
        LET previous == Get(a.s, "attestation_status")
            current == ColorizeStatus(att_status, color)
        IN
        [s |-> Put(a.s, "attestation_status", att_status),
         c |-> IF previous = None \/ previous # att_status
               THEN Append(a.c, Change("attestation_status",
                                       <<"attestation">> \o current))
               ELSE a.c]
    ELSE a

StepAttestation(event, a, color) ==
    LET att_status == Get(event, "attestation_status") IN
    IF IsStr(att_status) THEN
        LET previous == Get(a.s, "attestation_status")
            current == ColorizeStatus(att_status, color)
        IN
        [s |-> Put(a.s, "attestation_status", att_status),
         c |-> IF previous = None
               THEN Append(a.c, Change("attestation_status",
                                       <<"attestation">> \o current))
               ELSE IF previous # att_status
               THEN Append(a.c, Change("attestation_status",
                        <<"attestation">> \o current \o <<"(was">>
                        \o ColorizeStatus(PyStr(previous), color) \o <<")">>))
               ELSE a.c]
    ELSE a

StepTrustEvent(event, a) ==
    IF Get(event, "trust_event") = "{}" THEN
        LET tid == Get(event, "trust_event.id")
            given == Get(event, "trust_event.transition_reason")
            reason == IF Truthy(given) THEN PyStr(given) ELSE "posture"
            triggered == Get(event, "trust_event.triggered_at")
            descriptor == <<"trust", reason>> \o
                (IF Truthy(triggered) THEN <<"@", PyStr(triggered)>> ELSE <<>>)
        IN [s |-> Put(a.s, "trust_event_id", tid),
            c |-> Append(a.c, Change("trust_event", descriptor))]
    ELSE a

StepTrustEventId(event, a) ==
    LET trust_event_id == Get(event, "trust_event_id") IN
    IF trust_event_id # None
    THEN [a EXCEPT !.s = Put(a.s, "trust_event_id", trust_event_id)]
    ELSE a

StepLifecycle(event, a) ==
    StepStrArrow(Get(event, "trust_lifecycle_state"), "trust_lifecycle_state",
                 <<"trust", "lifecycle">>, a)

StepPrevLifecycle(event, a) ==
    StepStrContext(Get(event, "trust_previous_lifecycle_state"),
                   "trust_previous_lifecycle_state", a)

\* faulty variant: the attempts are reported and not recorded
StepRemediationAttempts_NoStore(event, a) ==
    LET remediation_attempts == Get(event, "trust_remediation_attempts") IN
    IF IsInt(remediation_attempts) THEN
        LET previous == Get(a.s, "trust_remediation_attempts") IN
        [s |-> a.s,
         c |-> IF previous = None \/ ~PyEq(previous, remediation_attempts)
               THEN Append(a.c, Change("trust_remediation_attempts",
                        <<"trust", "remediation", PyStr(remediation_attempts)>>))
               ELSE a.c]
    ELSE a

StepRemediationAttempts(event, a) ==
    LET remediation_attempts == Get(event, "trust_remediation_attempts") IN
    IF IsInt(remediation_attempts) THEN
        LET previous == Get(a.s, "trust_remediation_attempts") IN
        [s |-> Put(a.s, "trust_remediation_attempts", remediation_attempts),
         c |-> IF previous = None \/ ~PyEq(previous, remediation_attempts)
               THEN Append(a.c, Change("trust_remediation_attempts",
                        <<"trust", "remediation", PyStr(remediation_attempts)>>))
               ELSE a.c]
    ELSE a

StepFreshness(event, a) ==
    LET first == Get(event, "freshness_expires_at")
        freshness_deadline ==
            IF Truthy(first) THEN first ELSE Get(event, "trust_freshness_deadline")
    IN StepStrContext(freshness_deadline, "trust_freshness_deadline", a)

StepProvenanceRef(event, a) ==
    StepStrContext(Get(event, "trust_provenance_ref"), "trust_provenance_ref", a)

StepProvenance(event, a) ==
    LET provenance == Get(event, "trust_provenance") IN
    IF provenance # None
    THEN [a EXCEPT !.s = Put(a.s, "trust_provenance", provenance)]
    ELSE a

\* faulty variant: the first stale flag of an entity is recorded without a record
StepStale_SilentFirst(event, a) ==
    LET stale_flag == Get(event, "stale") IN
    IF IsBool(stale_flag) THEN
        LET previous == Get(a.s, "stale") IN
        [s |-> Put(a.s, "stale", stale_flag),
         c |-> IF previous # None /\ previous # stale_flag
               THEN Append(a.c, Change("stale",
                        <<"evidence", IF stale_flag = "true" THEN "stale" ELSE "fresh">>))
               ELSE a.c]
    ELSE a

StepStale(event, a) ==
    LET stale_flag == Get(event, "stale") IN
    IF IsBool(stale_flag) THEN
        LET previous == Get(a.s, "stale") IN
        [s |-> Put(a.s, "stale", stale_flag),
         c |-> IF previous = None \/ previous # stale_flag
               THEN Append(a.c, Change("stale",
                        <<"evidence", IF stale_flag = "true" THEN "stale" ELSE "fresh">>))
               ELSE a.c]
    ELSE a

\* evaluation_required / governance_required
StepRequired(event, field, label, a) ==
    LET value == Get(event, field) IN
    IF IsBool(value) THEN
        LET previous == Get(a.s, field)
            current == IF value = "true" THEN "required" ELSE "clear"
        IN
        [s |-> Put(a.s, field, value),
         c |-> IF previous = None
               THEN Append(a.c, Change(field, <<label, current>>))
               ELSE IF previous # value
               THEN Append(a.c, Change(field,
                        <<label, IF previous = "true" THEN "required" ELSE "clear",
                          "->", current>>))
               ELSE a.c]
    ELSE a

StepProviderKey(event, a) ==
    IF Get(event, "provider_key_posture") = "{}" THEN
        LET a1 == StepStrArrow(Get(event, "provider_key_posture.state"),
                               "provider_key_state", <<"provider", "key">>, a)
            veto_flag == Get(event, "provider_key_posture.vetoed")
            a2 == IF IsBool(veto_flag) THEN
                      LET prev_veto == Get(a1.s, "provider_key_vetoed") IN
                      [s |-> Put(a1.s, "provider_key_vetoed", veto_flag),
                       c |-> IF prev_veto = None \/ prev_veto # veto_flag
                             THEN Append(a1.c, Change("provider_key_vetoed",
                                    <<"provider", "key",
                                      IF veto_flag = "true" THEN "vetoed" ELSE "cleared">>))
                             ELSE a1.c]
                  ELSE a1
            a3 == StepStrContext(Get(event, "provider_key_posture.rotation_due_at"),
                                 "provider_key_rotation_due_at", a2)
            a4 == IF Get(event, "provider_key_posture.notes") = "[]"
                  THEN [a3 EXCEPT !.s = Put(a3.s, "provider_key_notes",
                            SelectSeq(event["provider_key_posture.notes.items"], IsStr))]
                  ELSE a3
        IN StepStrContext(Get(event, "provider_key_posture.provider_id"),
                          "provider_key_provider_id", a4)
    ELSE a

\* faulty variant: the instance is recorded on first sight only
StepInstance_KeepsFirst(event, a) ==
    IF Get(a.s, "instance_id") = None
    THEN StepStrArrow(Get(event, "instance_id"), "instance_id", <<"instance">>, a)
    ELSE a

StepInstance(event, a) ==
    StepStrArrow(Get(event, "instance_id"), "instance_id", <<"instance">>, a)

\* lines 1186-1327: the fields in the order the code visits them
Reconcile(event, summary, color) ==
    LET a0 == [s |-> summary, c |-> <<>>]
        a1 == StepBackend(event, a0)
        a2 == StepCandidate(event, a1)
        a3 == StepFallback(event, a2)
        a4 == StepActiveInstance(event, a3)
        a5 == StepAttestation(event, a4, color)
        a6 == StepTrustEvent(event, a5)
        a7 == StepTrustEventId(event, a6)
        a8 == StepLifecycle(event, a7)
        a9 == StepPrevLifecycle(event, a8)
        a10 == StepRemediationAttempts(event, a9)
        a11 == StepFreshness(event, a10)
        a12 == StepProvenanceRef(event, a11)
        a13 == StepProvenance(event, a12)
        a14 == StepStale(event, a13)
        a15 == StepRequired(event, "evaluation_required", "evaluation", a14)
        a16 == StepRequired(event, "governance_required", "governance", a15)
        a17 == StepProviderKey(event, a16)
    IN StepInstance(event, a17)

\* a dict key: True and 1 are the same key
KeyOf(server_id) == PyNum(server_id)

\* lines 1333-1354: the text of the line
RenderLine(event, summary, changes, signal_notes) ==
    LET server_id == Get(event, "server_id")
        timestamp == GetD(event, "timestamp", "")
        event_type == PyStr(GetD(event, "type", "unknown"))
        header == <<"[", PyStr(timestamp), "]", "server", PyStr(server_id),
                    Upper(event_type)>>
        p1 == IF Len(changes) > 0
              THEN <<Join([i \in 1..Len(changes) |-> changes[i].text], ";")>>
              ELSE <<>>
        active_instance == Get(summary, "active_instance")
        p2 == IF IsStr(active_instance)
              THEN <<(<<"Active", "instance:", active_instance>>)>> ELSE <<>>
        latest_posture == Get(summary, "attestation_status")
        p3 == IF IsStr(latest_posture)
              THEN <<(<<"Latest", "posture:", latest_posture>>)>> ELSE <<>>
        provider_key_state == Get(summary, "provider_key_state")
        rotation_due == Get(summary, "provider_key_rotation_due_at")
        p4 == IF IsStr(provider_key_state)
              THEN <<(<<"Provider", "key:", provider_key_state>> \o
                      (IF Get(summary, "provider_key_vetoed") = "true"
                       THEN <<"(vetoed)">> ELSE <<>>))>>
                   \o (IF IsStr(rotation_due)
                       THEN <<(<<"BYOK", "rotation", "due", "@", rotation_due>>)>>
                       ELSE <<>>)
              ELSE <<>>
        p5 == IF Len(signal_notes) > 0
              THEN <<Join(signal_notes, ",")>> ELSE <<>>
    IN header \o Join(p1 \o p2 \o p3 \o p4 \o p5, "|")

\* faulty variant: a line is rendered whether or not there is anything to say
RenderPolicyEvent_AlwaysPrints(event, st, color) ==
    LET server_id == Get(event, "server_id") IN
    IF ~IsInt(server_id)
    THEN [state |-> st, changes |-> <<>>, rendered |-> <<>>, accepted |-> FALSE]
    ELSE
        LET key == KeyOf(server_id)
            summary == IF key \in DOMAIN st THEN st[key] ELSE EmptyMap
            a == Reconcile(event, summary, color)
        IN [state |-> Put(st, key, a.s),
            changes |-> a.c,
            rendered |-> RenderLine(event, a.s, a.c, FilterSignalNotes(event)),
            accepted |-> TRUE]

\* _render_policy_event: the new posture, the change records and the line
\* (the empty text when the code returns None)
RenderPolicyEvent(event, st, color) ==
    LET server_id == Get(event, "server_id") IN
    IF ~IsInt(server_id)
    THEN [state |-> st, changes |-> <<>>, rendered |-> <<>>, accepted |-> FALSE]
    ELSE
        LET key == KeyOf(server_id)
            summary == IF key \in DOMAIN st THEN st[key] ELSE EmptyMap
            a == Reconcile(event, summary, color)
            signal_notes == FilterSignalNotes(event)
        IN [state |-> Put(st, key, a.s),
            changes |-> a.c,
            rendered |-> IF Len(a.c) = 0 /\ Len(signal_notes) = 0 THEN <<>>
                         ELSE RenderLine(event, a.s, a.c, signal_notes),
            accepted |-> TRUE]

----------------------------------------------------------------------------
(* The events the model feeds the policy watch *)

Ev(server_id, body) == ("server_id" :> server_id) @@ body

Notes(items) == ("notes" :> "[]") @@ ("notes.items" :> items)

ProviderKey(sub) == ("provider_key_posture" :> "{}") @@ sub

DiffBodies ==
    { ("backend" :> "virtual-machine"), ("backend" :> "docker"),
      ("instance_id" :> "vm-alpha"), ("instance_id" :> "vm-beta"),
      ("attestation_status" :> "trusted"), ("attestation_status" :> "untrusted"),
      ("attestation_status" :> "Needs_Review"),
      ("trust_lifecycle_state" :> "quarantined"),
      ("trust_lifecycle_state" :> "restored"),
      ("trust_remediation_attempts" :> "1"), ("trust_remediation_attempts" :> "2"),
      ("trust_remediation_attempts" :> "true"),
      ("stale" :> "true"), ("stale" :> "false"),
      ("evaluation_required" :> "true"), ("evaluation_required" :> "false"),
      ("governance_required" :> "true"), ("governance_required" :> "false"),
      ProviderKey("provider_key_posture.state" :> "active"),
      ProviderKey("provider_key_posture.state" :> "revoked"),
      ProviderKey("provider_key_posture.vetoed" :> "true"),
      ProviderKey("provider_key_posture.vetoed" :> "false") }

AlwaysBodies ==
    { ("fallback_backend" :> "docker"),
      ("trust_event" :> "{}") @@ ("trust_event.id" :> "11")
          @@ ("trust_event.transition_reason" :> "quarantine")
          @@ ("trust_event.triggered_at" :> "t1"),
      ("trust_event" :> "{}"),
      ("backend" :> "virtual-machine") @@ ("fallback_backend" :> "docker"),
      ("backend" :> "docker") @@ ("fallback_backend" :> "docker") }

ContextBodies ==
    { ("candidate_backend" :> "virtual-machine"), ("candidate_backend" :> "docker"),
      ("trust_event_id" :> "11"),
      ("trust_previous_lifecycle_state" :> "remediating"),
      ("freshness_expires_at" :> "t1"),
      ("freshness_expires_at" :> "") @@ ("trust_freshness_deadline" :> "t2"),
      ("trust_provenance_ref" :> "ref-1"),
      ("trust_provenance" :> "{}"),
      ProviderKey(("provider_key_posture.rotation_due_at" :> "t3")
          @@ ("provider_key_posture.provider_id" :> "prov-1")
          @@ ("provider_key_posture.notes" :> "[]")
          @@ ("provider_key_posture.notes.items" :> <<"rotate", "5">>)),
      EmptyMap }

WrongTypeBodies ==
    { ("backend" :> "5"), ("stale" :> "yes"), ("provider_key_posture" :> "active"),
      ("attestation_status" :> None) }

NoteBodies ==
    { Notes(<< <<"vm:attestation", ":trusted">> >>),
      Notes(<< <<"info">>, <<"use", "fallback", "now">> >>),
      Notes(<< <<"info">>, <<"see", "attestation:", "x">>, <<"5">> >>),
      Notes(<< <<"provider-key:", "rotated">>, <<"attestation:", "stale">> >>) }

ScenarioBodies ==
    { ("type" :> "decision") @@ ("attestation_status" :> "trusted"),
      ("type" :> "attestation") @@ ("attestation_status" :> "untrusted")
          @@ ("instance_id" :> "vm-alpha"),
      ("timestamp" :> "t0") @@ ("type" :> None) @@ ("stale" :> "true") }

Bodies ==
    DiffBodies \cup AlwaysBodies \cup ContextBodies \cup WrongTypeBodies
        \cup NoteBodies \cup ScenarioBodies

\* the second server sends fewer shapes
OtherBodies ==
    { ("backend" :> "docker"), ("attestation_status" :> "trusted"),
      ("attestation_status" :> "untrusted"), ("instance_id" :> "vm-beta"),
      ("fallback_backend" :> "docker"), ("candidate_backend" :> "docker"),
      ("stale" :> "true") }

\* events whose server_id is missing, a string, null, a float or a boolean
MalformedEvents ==
    { ("backend" :> "docker"),
      Ev("srv-9", ("backend" :> "docker")),
      Ev(None, ("attestation_status" :> "trusted")),
      Ev("9.5", ("backend" :> "docker")),
      Ev("true", ("backend" :> "docker")) }

PolicyEvents ==
    {Ev("9", b) : b \in Bodies} \cup {Ev("7", b) : b \in OtherBodies}
        \cup {Ev("1", ("backend" :> "virtual-machine"))}
        \cup MalformedEvents

----------------------------------------------------------------------------
(* renderers.dumps_json: json.dumps(data, indent=2, sort_keys=True).  The  *)
(* text holds a "\n" token at every line break.  Keys come in the order of *)
(* SeqOf, which stands for the sorted order.                               *)

RECURSIVE SeqOf(_)
SeqOf(S) ==
    IF S = {} THEN <<>>
    ELSE LET x == CHOOSE y \in S : TRUE IN <<x>> \o SeqOf(S \ {x})

\* the flattened keys of the nested objects and lists
Children(k) ==
    CASE k = "trust_event" ->
            {"trust_event.id", "trust_event.transition_reason",
             "trust_event.triggered_at"}
      [] k = "provider_key_posture" ->
            {"provider_key_posture.state", "provider_key_posture.vetoed",
             "provider_key_posture.rotation_due_at", "provider_key_posture.notes",
             "provider_key_posture.provider_id"}
      [] OTHER -> {}

NestedKeys ==
    Children("trust_event") \cup Children("provider_key_posture")
        \cup {"notes.items", "provider_key_posture.notes.items"}

RECURSIVE DumpItems(_, _)
\* the members of a container, one per line, separated by ","
DumpItems(texts, indent) ==
    IF Len(texts) = 0 THEN <<>>
    ELSE <<"\n", indent>> \o texts[1]
         \o (IF Len(texts) > 1 THEN <<",">> ELSE <<>>)
         \o DumpItems(Tail(texts), indent)

DumpList(items, indent) ==
    IF Len(items) = 0 THEN <<"[]">>
    ELSE <<"[">>
         \o DumpItems(items, indent \o "  ")
         \o <<"\n", indent, "]">>

RECURSIVE DumpValue(_, _, _, _)
\* a value of an object: a scalar, a list of scalars or texts, or (at the
\* top level only) a nested object of scalars
DumpValue(obj, k, indent, nested) ==
    IF obj[k] = "[]" /\ (k \o ".items") \in DOMAIN obj THEN
        DumpList([i \in 1..Len(obj[k \o ".items"]) |->
                     IF k = "notes" THEN obj[k \o ".items"][i]
                     ELSE <<obj[k \o ".items"][i]>>], indent)
    ELSE IF obj[k] = "{}" /\ ~nested THEN
        LET keys == SeqOf(Children(k) \cap DOMAIN obj) IN
        IF Len(keys) = 0 THEN <<"{}">>
        ELSE <<"{">>
             \o DumpItems([i \in 1..Len(keys) |->
                    <<keys[i], ":">> \o DumpValue(obj, keys[i], indent \o "  ", TRUE)],
                    indent \o "  ")
             \o <<"\n", indent, "}">>
    ELSE <<obj[k]>>

DumpsJson(doc) ==
    IF doc.parsed # "object" THEN
        \* a list goes through the same indentation; the one list is [1]
        IF doc.value = "[]" THEN DumpList(<< <<"1">> >>, "") ELSE <<doc.value>>
    ELSE
        LET keys == SeqOf(DOMAIN doc.event \ NestedKeys) IN
        IF Len(keys) = 0 THEN <<"{}">>
        ELSE <<"{">>
             \o DumpItems([i \in 1..Len(keys) |->
                    <<keys[i], ":">> \o DumpValue(doc.event, keys[i], "  ", FALSE)],
                    "  ")
             \o <<"\n", "", "}">>

\* the number of physical lines a print call writes
PhysicalLines(text) == 1 + Len(SelectSeq(text, LAMBDA t : t = "\n"))

----------------------------------------------------------------------------
(* Payloads: the text stream_sse yields and what json.loads makes of it    *)
(* ("invalid": JSONDecodeError; "value": a JSON value that is no object;   *)
(* "object": the event)                                                    *)

Payload(text, parsed, value, event) ==
    [text |-> text, parsed |-> parsed, value |-> value, event |-> event]

EmptyPayload == Payload(<<>>, "invalid", None, EmptyMap)

InvalidPayload == Payload(<<"{oops">>, "invalid", None, EmptyMap)

ListPayload == Payload(<<"[1]">>, "value", "[]", EmptyMap)

NullPayload == Payload(<<"null">>, "value", None, EmptyMap)

ObjectPayload(event) == Payload(<<"{", "obj", "}">>, "object", "{}", event)

PolicyPayloads ==
    {EmptyPayload, InvalidPayload, ListPayload, NullPayload}
        \cup {ObjectPayload(e) : e \in PolicyEvents}

Printed(kind, text) == [kind |-> kind, text |-> text]

\* an exception no handler catches: the interpreter prints the traceback
\* and the process exits with status 1
Crash(exc) ==
    /\ pc' = "crashed"
    /\ conn' = "closed"
    /\ err' = Append(err, Printed("traceback", <<"Traceback", exc>>))
    /\ exit_code' = 1

----------------------------------------------------------------------------
(* _policy_watch, lines 1149-1165: the body of the loop for one payload    *)

\* faulty variant: a line is held back and joined to the line before it
Emit_Batched(printed, rendered) ==
    IF Len(rendered) = 0 THEN printed
    ELSE IF Len(printed) = 0 THEN Append(printed, Printed("line", rendered))
    ELSE [printed EXCEPT ![Len(printed)].text = @ \o rendered]

\* lines 1164-1165: if rendered: print(rendered)
Emit(printed, rendered) ==
    IF Len(rendered) > 0 THEN Append(printed, Printed("line", rendered)) ELSE printed

PolicyBody(payload) ==
    IF Len(payload.text) = 0 THEN
        UNCHANGED <<pc, conn, err, exit_code, state, out, log>>
    ELSE IF payload.parsed = "invalid" THEN
        /\ out' = IF as_json THEN Append(out, Printed("raw", payload.text)) ELSE out
        /\ UNCHANGED <<pc, conn, err, exit_code, state, log>>
    ELSE IF as_json THEN
        /\ out' = Append(out, Printed("dumps_json", DumpsJson(payload)))
        /\ UNCHANGED <<pc, conn, err, exit_code, state, log>>
    ELSE IF payload.parsed # "object" THEN
        \* event.get on a list, a number or None: AttributeError
        /\ Crash("AttributeError")
        /\ UNCHANGED <<state, out, log>>
    ELSE
        LET r == RenderPolicyEvent(payload.event, state, use_color) IN
        /\ state' = r.state
        /\ out' = Emit(out, r.rendered)
        /\ log' = Append(log, [event |-> payload.event, accepted |-> r.accepted,
                               pre |-> state, post |-> r.state,
                               changes |-> r.changes, rendered |-> r.rendered])
        /\ UNCHANGED <<pc, conn, err, exit_code>>

----------------------------------------------------------------------------
(* The policy watch fed with parsed payloads *)

PolicyInit ==
    /\ cmd = "policy"
    /\ as_json \in BOOLEAN
    /\ use_color \in BOOLEAN
    /\ ~(as_json /\ use_color)
    /\ max_events = 0
    /\ pc = "streaming"
    /\ response = [status |-> 200, body |-> EmptyPayload]
    /\ conn = "open"
    /\ state = EmptyMap
    /\ out = <<>>
    /\ err = <<>>
    /\ exit_code = -1
    /\ count = 0
    /\ pulled = 0
    /\ lines = <<>>
    /\ log = <<>>
    /\ paging = NoPaging

\* the loop pulls the next payload and handles it
PolicyDeliver ==
    /\ pc = "streaming"
    /\ pulled < MaxEvents
    /\ \E payload \in PolicyPayloads :
        /\ pulled' = pulled + 1
        /\ PolicyBody(payload)
    /\ UNCHANGED <<paging, cmd, as_json, use_color, max_events, response, count, lines>>

\* faulty variant: the loop has no except clause, KeyboardInterrupt escapes
Interrupt_Uncaught ==
    /\ pc = "streaming"
    /\ pc' = "interrupted"
    /\ conn' = "closed"
    /\ err' = Append(err, Printed("traceback", <<"Traceback", "KeyboardInterrupt">>))
    /\ exit_code' = 1
    /\ UNCHANGED <<paging, cmd, as_json, use_color, max_events, response, state, out,
                   count, pulled, lines, log>>

\* faulty variant: the generator is left suspended and keeps the response
Interrupt_LeavesOpen ==
    /\ pc = "streaming"
    /\ pc' = "interrupted"
    /\ exit_code' = 0
    /\ UNCHANGED <<paging, cmd, as_json, use_color, max_events, response, conn, state, out,
                   err, count, pulled, lines, log>>

\* KeyboardInterrupt inside the try block: the handler returns, dispatch
\* returns 0 (cli.py 65-67)
Interrupt ==
    /\ pc = "streaming"
    /\ pc' = "interrupted"
    /\ conn' = "closed"
    /\ exit_code' = 0
    /\ UNCHANGED <<paging, cmd, as_json, use_color, max_events, response, state, out, err,
                   count, pulled, lines, log>>

\* the server closes the stream: the for loop ends, the handler returns
StreamEnd ==
    /\ pc = "streaming"
    /\ pc' = "done"
    /\ conn' = "closed"
    /\ exit_code' = 0
    /\ UNCHANGED <<paging, cmd, as_json, use_color, max_events, response, state, out, err,
                   count, pulled, lines, log>>

PolicyNext == PolicyDeliver \/ Interrupt \/ StreamEnd

SpecPolicy == PolicyInit /\ [][PolicyNext]_vars

----------------------------------------------------------------------------
(* APIClient.stream_sse, lines 176-183: what the decoder makes of one raw  *)
(* line.  A raw line is a text whose tokens are " " (white space), ":",    *)
(* "data:" and words.                                                      *)

RECURSIVE LStrip(_)
LStrip(text) ==
    IF Len(text) > 0 /\ text[1] = " " THEN LStrip(Tail(text)) ELSE text

RECURSIVE RStrip(_)
RStrip(text) ==
    IF Len(text) > 0 /\ text[Len(text)] = " "
    THEN RStrip(SubSeq(text, 1, Len(text) - 1)) ELSE text

\* str.strip()
Strip(text) == RStrip(LStrip(text))

\* faulty variant: a comment line is taken for a payload
DecodeLine_YieldsComments(raw_line) ==
    LET line == Strip(raw_line) IN
    IF Len(line) = 0 THEN [yields |-> FALSE, payload |-> <<>>]
    ELSE IF line[1] \in {"data:", ":"}
    THEN [yields |-> TRUE, payload |-> Strip(Tail(line))]
    ELSE [yields |-> FALSE, payload |-> <<>>]

DecodeLine(raw_line) ==
    LET line == Strip(raw_line) IN
    IF Len(line) = 0 \/ line[1] = ":" THEN [yields |-> FALSE, payload |-> <<>>]
    ELSE IF line[1] = "data:"
    THEN [yields |-> TRUE, payload |-> Strip(Tail(line))]
    ELSE [yields |-> FALSE, payload |-> <<>>]

----------------------------------------------------------------------------
(* json.loads on the payload texts of the model: a JSON document is one    *)
(* token, named in Documents; any other text is no JSON                    *)

Object(event) == [parsed |-> "object", value |-> "{}", event |-> event]

Value(v) == [parsed |-> "value", value |-> v, event |-> EmptyMap]

List(k, items) == (k :> "[]") @@ ((k \o ".items") :> items)

Documents ==
    ("[1]" :> Value("[]")) @@ ("null" :> Value(None)) @@ ("5" :> Value("5"))
    @@ ("{policy-a}" :> Object(Ev("9", ("attestation_status" :> "trusted"))))
    @@ ("{policy-b}" :> Object(Ev("9", ("attestation_status" :> "untrusted")
                                       @@ ("instance_id" :> "vm-alpha"))))
    @@ ("{policy-x}" :> Object(Ev("srv-9", ("backend" :> "docker"))))
    @@ ("{trust-a}" :> Object(
            ("server_id" :> "7") @@ ("vm_instance_id" :> "55")
            @@ ("triggered_at" :> "t1") @@ ("attestation_status" :> "trusted")
            @@ ("previous_attestation_status" :> "untrusted")
            @@ ("lifecycle_state" :> "restored") @@ ("stale" :> "false")
            @@ ("remediation_attempts" :> None) @@ ("version" :> "2")))
    @@ ("{trust-b}" :> Object(
            ("server_id" :> "7") @@ ("vm_instance_id" :> "55")
            @@ ("server_name" :> "alpha") @@ ("remediation_attempts" :> "2")
            @@ ("freshness_deadline" :> "t2") @@ ("stale" :> "true")
            @@ ("provenance_ref" :> "ref-1") @@ ("transition_reason" :> "drift")))
    @@ ("{trust-x}" :> Object(("server_id" :> "7") @@ ("vm_instance_id" :> "vm-55")))
    @@ ("{trust-n}" :> Object(("server_id" :> "7") @@ ("vm_instance_id" :> "55")
                              @@ ("server_name" :> "5") @@ ("version" :> "1")))
    @@ ("{life-hb}" :> Object(("type" :> "heartbeat") @@ ("cursor" :> "7")
                              @@ ("emitted_at" :> "t1")))
    @@ ("{life-err}" :> Object(("type" :> "error") @@ ("error" :> "lagging")
                               @@ ("emitted_at" :> "t1")))
    @@ ("{life-page}" :> Object(("type" :> "snapshot") @@ ("cursor" :> "9")
                                @@ ("emitted_at" :> "t2") @@ ("page" :> "{}")
                                @@ ("page.total" :> "0") @@ ("delta" :> "{}")))
    @@ ("{life-none}" :> Object(("type" :> "snapshot") @@ ("page" :> "[]")))
    @@ ("{run-log}" :> Object(
            ("run_id" :> "42") @@ ("instance_id" :> "1001") @@ ("event" :> "{}")
            @@ ("event.event" :> "log") @@ ("event.stream" :> "stdout")
            @@ ("event.message" :> "rebooting") @@ ("event.timestamp" :> "t1")))
    @@ ("{run-status}" :> Object(
            ("run_id" :> "42") @@ ("instance_id" :> "1001") @@ ("event" :> "{}")
            @@ ("event.event" :> "status") @@ ("event.status" :> "completed")
            @@ ("event.message" :> "done")
            @@ List("policy_feedback", <<"policy_hook:gate", " ", "5">>)
            @@ ("policy_gate" :> "{}")
            @@ List("policy_gate.remediation_hooks", <<"policy_hook:gate">>)
            @@ List("policy_gate.accelerator_gates",
                    << ("accelerator_id" :> "accel-1")
                           @@ List("hooks", <<"hook:await">>)
                           @@ List("reasons", <<"pending", "attestation">>),
                       ("accelerator_id" :> "accel-2") @@ List("hooks", <<>>),
                       ("accelerator_id" :> "5") @@ List("hooks", <<"hook:x">>) >>)
            @@ List("accelerators",
                    << ("accelerator_id" :> "accel-1")
                           @@ ("accelerator_type" :> "nvidia-h100")
                           @@ ("posture" :> "quarantined")
                           @@ List("policy_feedback", <<"accelerator:requires">>),
                       ("kind" :> "tpu") >>)))
    @@ ("{run-other}" :> Object(("run_id" :> "42") @@ ("instance_id" :> "1001")
                                @@ ("event" :> "{}") @@ ("event.type" :> "queued")))
    @@ ("{run-x}" :> Object(("run_id" :> "42") @@ ("event" :> "{}")
                            @@ ("event.event" :> "log")))
    @@ ("{market-a}" :> Object(
            ("event_type" :> "submission.created") @@ ("occurred_at" :> "t1")
            @@ ("submission_id" :> "sub-1") @@ ("actor_ref" :> "ops")
            @@ ("payload" :> "{}") @@ ("payload.status" :> "pending")
            @@ List("payload.notes", <<"n1", "n2">>)))
    @@ ("{market-b}" :> Object(("promotion_id" :> "11") @@ ("payload" :> "[]")))

\* the payload stream_sse yields, with what json.loads makes of it
Loads(text) ==
    IF Len(text) = 1 /\ text[1] \in DOMAIN Documents
    THEN [text |-> text] @@ Documents[text[1]]
    ELSE Payload(text, "invalid", None, EmptyMap)

----------------------------------------------------------------------------
(* _render_trust_event, lines 1570-1615 *)

\* a or b
Or(a, b) == IF Truthy(a) THEN a ELSE b

\* str.strip() of a one-token string
StripToken(t) == IF t = " " THEN "" ELSE t

\* faulty variant: the version is left out unless it is above the first
VersionText_FromSecond(version) ==
    IF IsInt(version) /\ version \notin {"0", "1", "2"} THEN "v" \o PyStr(version) ELSE ""

\* lines 1592-1593: version_text
VersionText(version) == IF IsInt(version) THEN "v" \o PyStr(version) ELSE ""

RenderTrustEvent(event) ==
    LET server_id == Get(event, "server_id")
        vm_instance_id == Get(event, "vm_instance_id")
        name == Or(Get(event, "server_name"), "")
    IN
    IF ~IsInt(server_id) \/ ~IsInt(vm_instance_id)
    THEN [raises |-> FALSE, text |-> <<>>]
    ELSE IF ~IsStr(name)
    THEN [raises |-> TRUE, text |-> <<>>]  \* .strip() of a number or a container
    ELSE
        LET triggered == Or(Get(event, "triggered_at"), "unknown")
            server_name == StripToken(name)
            status == Or(Get(event, "attestation_status"), "unknown")
            previous_status == Or(Get(event, "previous_attestation_status"), "-")
            lifecycle == Or(Get(event, "lifecycle_state"), "-")
            previous_lifecycle == Or(Get(event, "previous_lifecycle_state"), "-")
            remediation_state == Or(Get(event, "remediation_state"), "-")
            attempts == Get(event, "remediation_attempts")
            attempts_text == IF IsInt(attempts) /\ attempts # "-1"
                             THEN PyStr(attempts) ELSE "-"
            freshness_deadline == Get(event, "freshness_deadline")
            freshness_state ==
                <<IF Truthy(Get(event, "stale")) THEN "stale" ELSE "fresh">>
                \o (IF Truthy(freshness_deadline)
                    THEN <<"(deadline", PyStr(freshness_deadline), ")">> ELSE <<>>)
            reason == Or(Get(event, "transition_reason"), "-")
            provenance_ref == Or(Get(event, "provenance_ref"), "-")
            version == Get(event, "version")
            header == <<"[", PyStr(triggered), "]", "server", PyStr(server_id)>>
                      \o (IF server_name # "" THEN <<"(", server_name, ")">> ELSE <<>>)
                      \o <<"vm", PyStr(vm_instance_id)>>
            segments ==
                << header,
                   <<"status", PyStr(previous_status), "->", PyStr(status)>>,
                   <<"lifecycle", PyStr(previous_lifecycle), "->", PyStr(lifecycle)>>,
                   <<"remediation", PyStr(remediation_state), "(attempts",
                     attempts_text, ")">>,
                   <<"freshness">> \o freshness_state >>
                \o (IF provenance_ref # "-"
                    THEN << <<"provenance", PyStr(provenance_ref)>> >> ELSE <<>>)
                \o (IF reason # "-" THEN << <<"reason", PyStr(reason)>> >> ELSE <<>>)
                \o (IF VersionText(version) # ""
                    THEN << <<VersionText(version)>> >> ELSE <<>>)
        IN [raises |-> FALSE, text |-> Join(segments, "|")]

----------------------------------------------------------------------------
(* lifecycle._render_event, lines 138-154, for events whose page holds no  *)
(* workspace list or an empty one and whose delta holds no workspaces: the *)
(* texts it prints, one per print call                                     *)

\* a flattened container is empty when the object carries none of its keys
LifecyclePageKeys == {"page.total", "page.workspaces"}

RenderLifecyclePage(event) ==
    IF Get(event, "page.workspaces") = "[]" THEN <<>>
    ELSE << <<"No", "lifecycle", "workspaces", "available">> >>

RenderLifecycleEvent(event) ==
    LET event_type == Get(event, "type")
        cursor == PyStr(Get(event, "cursor"))
        emitted_at == PyStr(Get(event, "emitted_at"))
    IN
    IF event_type = "heartbeat"
    THEN << <<"[", emitted_at, "]", "lifecycle", "heartbeat", "(cursor=", cursor, ")">> >>
    ELSE IF event_type = "error"
    THEN << <<"[", emitted_at, "]", "lifecycle", "error:", PyStr(Get(event, "error"))>> >>
    ELSE IF Get(event, "page") = "{}" /\ (LifecyclePageKeys \cap DOMAIN event) # {}
    THEN << <<"[", emitted_at, "]", "lifecycle", "snapshot", "(cursor=", cursor, ")">> >>
         \o RenderLifecyclePage(event)
    ELSE <<>>

----------------------------------------------------------------------------
(* remediation._render_event, lines 662-705, with _string_list,            *)
(* _policy_gate_summary, _accelerator_gate_summaries, _accelerator_summaries *)

IsList(obj, k) == Get(obj, k) = "[]" /\ (k \o ".items") \in DOMAIN obj

NonBlankStr(t) == IsStr(t) /\ StripToken(t) # ""

StringList(obj, k) ==
    IF ~IsList(obj, k) THEN <<>> ELSE SelectSeq(obj[k \o ".items"], NonBlankStr)

\* the entries of a list of objects (the model's lists of entries hold objects)
Entries(obj, k) == IF ~IsList(obj, k) THEN <<>> ELSE obj[k \o ".items"]

\* faulty variant: a gate is kept whether or not it has hooks or reasons
KeepGate_Any(entry) == IsStr(Get(entry, "accelerator_id"))

KeepGate(entry) ==
    /\ IsStr(Get(entry, "accelerator_id"))
    /\ Len(StringList(entry, "hooks")) + Len(StringList(entry, "reasons")) > 0

AcceleratorGateSummaries(event) ==
    IF Get(event, "policy_gate") # "{}" THEN <<>>
    ELSE SelectSeq(Entries(event, "policy_gate.accelerator_gates"), KeepGate)

RemediationHooks(event) ==
    IF Get(event, "policy_gate") # "{}" THEN <<>>
    ELSE StringList(event, "policy_gate.remediation_hooks")

Prefixed(text, items, sep) ==
    IF Len(items) = 0 THEN <<>>
    ELSE text \o Join([i \in 1..Len(items) |-> <<items[i]>>], sep)

GateLine(prefix, gate) ==
    prefix \o <<"accelerator", "gate", gate["accelerator_id"]>>
        \o Prefixed(<<"hooks=">>, StringList(gate, "hooks"), ",")
        \o Prefixed(<<"reasons=">>, StringList(gate, "reasons"), ";")

AcceleratorLine(prefix, entry) ==
    prefix \o <<"accelerator",
                PyStr(Or(Or(Get(entry, "accelerator_id"), Get(entry, "id")), "unknown")),
                "(",
                PyStr(Or(Or(Get(entry, "accelerator_type"), Get(entry, "kind")), "unknown")),
                ")", "posture", PyStr(Or(Get(entry, "posture"), "unknown"))>>
        \o Prefixed(<<"notes=">>, StringList(entry, "policy_feedback"), ",")

RenderRemediationEvent(event) ==
    LET run_id == Get(event, "run_id")
        instance == Get(event, "instance_id")
        is_dict == Get(event, "event") = "{}"
        kind == IF is_dict
                THEN Or(Get(event, "event.event"), Get(event, "event.type"))
                ELSE None
        prefix == <<"run", PyStr(run_id), "(instance", PyStr(instance), ")">>
        policy_feedback == StringList(event, "policy_feedback")
        remediation_gate == RemediationHooks(event)
        accelerator_gates == AcceleratorGateSummaries(event)
        accelerators == Entries(event, "accelerators")
    IN
    IF run_id = None \/ instance = None THEN <<>>
    ELSE IF is_dict /\ Get(event, "event.event") = "log" THEN
        << <<"[", PyStr(Get(event, "event.timestamp")), "]">> \o prefix
           \o <<"[", PyStr(Get(event, "event.stream")), "]",
                PyStr(Get(event, "event.message"))>> >>
    ELSE IF is_dict /\ Get(event, "event.event") = "status" THEN
        (IF Len(remediation_gate) > 0
         THEN << prefix \o Prefixed(<<"remediation", "gate", "->">>, remediation_gate, ",") >>
         ELSE <<>>)
        \o [i \in 1..Len(accelerator_gates) |-> GateLine(prefix, accelerator_gates[i])]
        \o (IF Len(policy_feedback) > 0
            THEN << prefix \o Prefixed(<<"policy", "feedback", "->">>, policy_feedback, ",") >>
            ELSE <<>>)
        \o [i \in 1..Len(accelerators) |-> AcceleratorLine(prefix, accelerators[i])]
        \o << prefix \o <<"status", "->", PyStr(Get(event, "event.status")),
                          "(failure", PyStr(Or(Get(event, "event.failure_reason"), "-")),
                          ")", PyStr(Or(Get(event, "event.message"), ""))>> >>
    ELSE
        << prefix \o <<"event", PyStr(Or(kind, "unknown")), ":",
                       PyStr(Get(event, "event"))>> >>

----------------------------------------------------------------------------
(* _summarize_marketplace_event, lines 709-735, for a decoded object *)

SummarizeMarketplaceEvent(event) ==
    LET has_payload == Get(event, "payload") = "{}"
        status == IF has_payload
                  THEN Or(Get(event, "payload.status"), Get(event, "payload.state"))
                  ELSE None
        piece(label, v) == IF Truthy(v) THEN <<label \o PyStr(v)>> ELSE <<>>
        notes == IF has_payload /\ IsList(event, "payload.notes")
                 THEN event["payload.notes.items"] ELSE <<>>
    IN <<"[", PyStr(GetD(event, "occurred_at", "?")), "]",
         PyStr(GetD(event, "event_type", "event"))>>
       \o piece("submission=", Get(event, "submission_id"))
       \o piece("evaluation=", Get(event, "evaluation_id"))
       \o piece("promotion=", Get(event, "promotion_id"))
       \o piece("status=", status)
       \o piece("actor=", Get(event, "actor_ref"))
       \o (IF Len(notes) > 0 THEN <<"notes=" \o ToString(Len(notes))>> ELSE <<>>)

----------------------------------------------------------------------------
(* The bounds and inputs of the watch commands *)

MaxLines == 3

Commands == {"policy", "trust", "lifecycle", "remediation", "marketplace"}

\* --max-events takes any integer
Budgets == {-1, 0, 1, 2}

DocumentsOf(c) ==
    CASE c = "policy" -> {"{policy-a}", "{policy-b}", "{policy-x}"}
      [] c = "trust" -> {"{trust-a}", "{trust-b}", "{trust-x}", "{trust-n}"}
      [] c = "lifecycle" -> {"{life-hb}", "{life-err}", "{life-page}", "{life-none}"}
      [] c = "remediation" -> {"{run-log}", "{run-status}", "{run-other}", "{run-x}"}
      [] c = "marketplace" -> {"{market-a}", "{market-b}"}

\* what the transport may deliver to command c, line by line
RawLines(c) ==
    { <<>>, <<" ">>, <<":", "heartbeat">>, <<":", " ", "data:", " ", "[1]">>,
      <<"event:", " ", "update">>, <<"data:">>,
      <<"data:", " ", "{oops">>, <<"data:", " ", "[1]">>, <<"data:", "null">>,
      <<"data:", " ", " ", "{oops", " ">> }
    \cup { <<"data:", " ", d>> : d \in DocumentsOf(c) }
    \cup { <<" ", "data:", " ", " ", d, " ">> : d \in {"{policy-a}", "{market-a}"} \cap DocumentsOf(c) }

ErrorBodies ==
    { Payload(<<"{", "error", ":", "unavailable", "}">>, "object", "{}",
              ("error" :> "unavailable")),
      Payload(<<"{", "detail", ":", "gone", "}">>, "object", "{}",
              ("detail" :> "gone")),
      Payload(<<"\"", "down", "\"">>, "value", "down", EmptyMap),
      Payload(<<"Bad", "Gateway">>, "invalid", None, EmptyMap),
      Payload(<<"[", "unavailable", "]">>, "value", "[]", EmptyMap),
      Payload(<<"null">>, "value", None, EmptyMap) }

Responses ==
    { [status |-> 200, body |-> EmptyPayload] }
    \cup { [status |-> st, body |-> b] : st \in {404, 503}, b \in ErrorBodies }

----------------------------------------------------------------------------
(* The loop bodies of the other watch commands.  Each says what becomes of *)
(* pc, conn, err, exit_code, state, out and log.                           *)

RECURSIVE PrintAll(_, _)
PrintAll(printed, texts) ==
    IF Len(texts) = 0 THEN printed
    ELSE PrintAll(Append(printed, Printed("line", texts[1])), Tail(texts))

\* _trust_watch, lines 1547-1565
TrustBody(payload) ==
    IF Len(payload.text) = 0 THEN
        UNCHANGED <<pc, conn, err, exit_code, state, out, log>>
    ELSE IF payload.parsed = "invalid" THEN
        /\ out' = IF as_json THEN Append(out, Printed("raw", payload.text)) ELSE out
        /\ UNCHANGED <<pc, conn, err, exit_code, state, log>>
    ELSE IF as_json THEN
        /\ out' = Append(out, Printed("dumps_json", DumpsJson(payload)))
        /\ UNCHANGED <<pc, conn, err, exit_code, state, log>>
    ELSE IF payload.parsed # "object" \/ RenderTrustEvent(payload.event).raises THEN
        /\ Crash("AttributeError")
        /\ UNCHANGED <<state, out, log>>
    ELSE
        LET rendered == RenderTrustEvent(payload.event).text IN
        /\ out' = IF Len(rendered) > 0 THEN Append(out, Printed("line", rendered)) ELSE out
        /\ UNCHANGED <<pc, conn, err, exit_code, state, log>>

\* _lifecycle_watch (lifecycle.py 120-133) and remediation._watch
\* (remediation.py 644-657): the same loop around another renderer
RawOrRenderBody(payload, texts) ==
    IF Len(payload.text) = 0 THEN
        UNCHANGED <<pc, conn, err, exit_code, state, out, log>>
    ELSE IF as_json \/ payload.parsed = "invalid" THEN
        /\ out' = Append(out, Printed("raw", payload.text))
        /\ UNCHANGED <<pc, conn, err, exit_code, state, log>>
    ELSE IF payload.parsed # "object" THEN
        /\ Crash("AttributeError")
        /\ UNCHANGED <<state, out, log>>
    ELSE
        /\ out' = PrintAll(out, texts)
        /\ UNCHANGED <<pc, conn, err, exit_code, state, log>>

LifecycleBody(payload) ==
    RawOrRenderBody(payload, RenderLifecycleEvent(payload.event))

\* faulty variant: a line that was printed before is not printed again
RemediationBody_SkipsRepeats(payload) ==
    RawOrRenderBody(payload,
        SelectSeq(RenderRemediationEvent(payload.event),
                  LAMBDA t : \A i \in 1..Len(out) : out[i].text # t))

RemediationBody(payload) ==
    RawOrRenderBody(payload, RenderRemediationEvent(payload.event))

\* faulty variant: the budget test is off by one
BudgetReached_OffByOne(n) == max_events # 0 /\ n > max_events

\* line 703: max_events and count >= max_events
BudgetReached(n) == max_events # 0 /\ n >= max_events

\* _marketplace_watch, lines 697-704
MarketplaceBody(payload) ==
    IF ~as_json /\ payload.parsed = "value" THEN
        /\ Crash("AttributeError")
        /\ UNCHANGED <<state, out, log, count>>
    ELSE
        /\ out' = Append(out,
                IF as_json \/ payload.parsed = "invalid"
                THEN Printed("raw", payload.text)
                ELSE Printed("line", SummarizeMarketplaceEvent(payload.event)))
        /\ count' = count + 1
        /\ IF BudgetReached(count + 1)
           THEN pc' = "budget" /\ conn' = "closed" /\ exit_code' = 0
           ELSE UNCHANGED <<pc, conn, exit_code>>
        /\ UNCHANGED <<err, state, log>>

LoopBody(payload) ==
    CASE cmd = "policy" -> PolicyBody(payload) /\ UNCHANGED count
      [] cmd = "trust" -> TrustBody(payload) /\ UNCHANGED count
      [] cmd = "lifecycle" -> LifecycleBody(payload) /\ UNCHANGED count
      [] cmd = "remediation" -> RemediationBody(payload) /\ UNCHANGED count
      [] cmd = "marketplace" -> MarketplaceBody(payload)

----------------------------------------------------------------------------
(* A watch command from dispatch to its end *)

WatchInit ==
    /\ cmd \in Commands
    /\ as_json \in BOOLEAN
    /\ use_color \in (IF cmd = "policy" /\ ~as_json THEN BOOLEAN ELSE {FALSE})
    /\ max_events \in (IF cmd = "marketplace" THEN Budgets ELSE {0})
    /\ pc = "idle"
    /\ response = [status |-> 0, body |-> EmptyPayload]
    /\ conn = "none"
    /\ state = EmptyMap
    /\ out = <<>>
    /\ err = <<>>
    /\ exit_code = -1
    /\ count = 0
    /\ pulled = 0
    /\ lines = <<>>
    /\ log = <<>>
    /\ paging = NoPaging

\* json.dumps(payload) of a flat object, on one line
DumpsCompact(obj) ==
    LET keys == SeqOf(DOMAIN obj) IN
    <<"{">> \o Join([i \in 1..Len(keys) |-> <<keys[i], ":", obj[keys[i]]>>], ",")
        \o <<"}">>

\* client.py 164-174: response.json(), else response.text; the message
ErrorMessage(body) ==
    IF body.parsed = "invalid" THEN [raises |-> FALSE, text |-> body.text]
    ELSE IF body.parsed = "value" /\ IsStr(body.value)
    THEN [raises |-> FALSE, text |-> <<body.value>>]
    ELSE IF body.parsed = "object"
    THEN [raises |-> FALSE,
          text |-> IF Truthy(Get(body.event, "error"))
                   THEN <<PyStr(Get(body.event, "error"))>>
                   ELSE DumpsCompact(body.event)]
    ELSE [raises |-> TRUE, text |-> <<>>]  \* .get of a list, a number or None

\* the first next() of the loop sends the request; a 2xx answer opens the stream
SubscribeOk ==
    /\ pc = "idle"
    /\ \E r \in Responses :
        /\ r.status \in 200..299
        /\ response' = r
    /\ pc' = "streaming"
    /\ conn' = "open"
    /\ UNCHANGED <<paging, cmd, as_json, use_color, max_events, state, out, err, exit_code,
                   count, pulled, lines, log>>

\* faulty variant: after a refusal the request is sent again
SubscribeError_Retries ==
    /\ pc = "idle"
    /\ \E r \in Responses :
        /\ r.status \notin 200..299
        /\ response' = r
    /\ UNCHANGED <<paging, cmd, as_json, use_color, max_events, pc, conn, state, out, err,
                   exit_code, count, pulled, lines, log>>

\* a non-2xx answer: stream_sse raises APIError, which dispatch reports
\* (cli.py 68-72)
SubscribeError ==
    /\ pc = "idle"
    /\ \E r \in Responses :
        /\ r.status \notin 200..299
        /\ response' = r
        /\ LET m == ErrorMessage(r.body)
               status == ToString(r.status)
           IN IF m.raises THEN Crash("AttributeError")
              ELSE /\ pc' = "errored"
                   /\ conn' = "closed"
                   /\ err' = <<Printed("line", <<"API", "error", "(", status, "):",
                                                 status, ":">> \o m.text)>>
                             \o (IF as_json THEN <<Printed("payload", r.body.text)>>
                                 ELSE <<>>)
                   /\ exit_code' = r.status
    /\ UNCHANGED <<paging, cmd, as_json, use_color, max_events, state, out, count, pulled,
                   lines, log>>

\* stream_sse reads the next raw line; a data line yields its payload, which
\* the loop body handles before the next line is read
ReadLine ==
    /\ pc = "streaming"
    /\ Len(lines) < MaxLines
    /\ \E raw_line \in RawLines(cmd) :
        /\ lines' = Append(lines, raw_line)
        /\ LET d == DecodeLine(raw_line) IN
           IF d.yields
           THEN pulled' = pulled + 1 /\ LoopBody(Loads(d.payload))
           ELSE UNCHANGED <<pulled, pc, conn, err, exit_code, state, out, log, count>>
    /\ UNCHANGED <<paging, cmd, as_json, use_color, max_events, response>>

\* the transport fails while the loop waits for the next line: iter_lines
\* raises, the with block releases the response, and the exception, which is
\* neither APIError nor ValueError, passes through the handler and dispatch
StreamError ==
    /\ pc = "streaming"
    /\ pc' = "failed"
    /\ conn' = "closed"
    /\ err' = Append(err, Printed("traceback", <<"Traceback", "ConnectionError">>))
    /\ exit_code' = 1
    /\ UNCHANGED <<paging, cmd, as_json, use_color, max_events, response, state, out,
                   count, pulled, lines, log>>

WatchNext ==
    SubscribeOk \/ SubscribeError \/ ReadLine \/ Interrupt \/ StreamEnd \/ StreamError

SpecWatch == WatchInit /\ [][WatchNext]_vars

----------------------------------------------------------------------------
(* APIClient.paginate, lines 91-127, called with integer offset and limit  *)
(* parameters against a server whose pages are objects that report an      *)
(* integer total.  The items of a page are yielded as they come and have   *)
(* no part in the loop; each action is one turn of the `while True` loop,  *)
(* by the page the server returns.  Every turn sends one request (line     *)
(* 103); paging.sent is the parity of the requests sent so far.            *)

MaxNext == 2

MaxLimit == 2

MaxTotal == 4

PaginateInit ==
    /\ paging \in [pc : {"loop"}, offset : 0..1, limit : 0..MaxLimit,
                    total : 0..MaxTotal, next_url : {FALSE}, followed : {0},
                    sent : {0}]
    /\ cmd = "paginate"
    /\ as_json = FALSE
    /\ use_color = FALSE
    /\ max_events = 0
    /\ pc = "idle"
    /\ response = [status |-> 0, body |-> EmptyPayload]
    /\ conn = "none"
    /\ state = EmptyMap
    /\ out = <<>>
    /\ err = <<>>
    /\ exit_code = -1
    /\ count = 0
    /\ pulled = 0
    /\ lines = <<>>
    /\ log = <<>>

\* the page holds a `next` link: the loop requests that link, without params
\* (lines 114-116); the server sends at most MaxNext such pages
FollowNext ==
    /\ paging.pc = "loop"
    /\ paging.followed < MaxNext
    /\ paging' = [paging EXCEPT !.next_url = TRUE, !.followed = @ + 1,
                                 !.sent = (@ + 1) % 2]
    /\ UNCHANGED <<cmd, as_json, use_color, max_events, pc, response, conn, state,
                   out, err, exit_code, count, pulled, lines, log>>

\* the page holds no `next` link, and offset + limit is below its total:
\* params["offset"] takes the sum and the loop goes on (lines 117-126)
AdvanceOffset ==
    /\ paging.pc = "loop"
    /\ paging.offset + paging.limit < paging.total
    /\ paging' = [paging EXCEPT !.next_url = FALSE, !.offset = @ + paging.limit,
                                 !.sent = (@ + 1) % 2]
    /\ UNCHANGED <<cmd, as_json, use_color, max_events, pc, response, conn, state,
                   out, err, exit_code, count, pulled, lines, log>>

\* the page holds no `next` link, and offset + limit has reached its total:
\* break (lines 122-124)
StopAtTotal ==
    /\ paging.pc = "loop"
    /\ paging.offset + paging.limit >= paging.total
    /\ paging' = [paging EXCEPT !.next_url = FALSE, !.pc = "done",
                                 !.sent = (@ + 1) % 2]
    /\ UNCHANGED <<cmd, as_json, use_color, max_events, pc, response, conn, state,
                   out, err, exit_code, count, pulled, lines, log>>

PaginateNext == FollowNext \/ AdvanceOffset \/ StopAtTotal

\* the caller consumes the generator to its end: the loop keeps turning
\* while it can
SpecPaginate ==
    PaginateInit /\ [][PaginateNext]_vars /\ WF_vars(PaginateNext)

----------------------------------------------------------------------------
(* Vocabulary of the claims about the policy reconciler *)

\* the diffed fields: the key in the event (ek), the key in the summary (sk),
\* the type the code asks for (ty), whether the change record shows the
\* previous value (arrow)
DiffedFields ==
    { [ek |-> "backend", sk |-> "backend", ty |-> "str", arrow |-> TRUE],
      [ek |-> "attestation_status", sk |-> "attestation_status", ty |-> "str",
       arrow |-> TRUE],
      [ek |-> "trust_lifecycle_state", sk |-> "trust_lifecycle_state", ty |-> "str",
       arrow |-> TRUE],
      [ek |-> "trust_remediation_attempts", sk |-> "trust_remediation_attempts",
       ty |-> "int", arrow |-> FALSE],
      [ek |-> "stale", sk |-> "stale", ty |-> "bool", arrow |-> FALSE],
      [ek |-> "evaluation_required", sk |-> "evaluation_required", ty |-> "bool",
       arrow |-> TRUE],
      [ek |-> "governance_required", sk |-> "governance_required", ty |-> "bool",
       arrow |-> TRUE],
      [ek |-> "provider_key_posture.state", sk |-> "provider_key_state", ty |-> "str",
       arrow |-> TRUE],
      [ek |-> "provider_key_posture.vetoed", sk |-> "provider_key_vetoed",
       ty |-> "bool", arrow |-> FALSE],
      [ek |-> "instance_id", sk |-> "instance_id", ty |-> "str", arrow |-> TRUE] }

InProviderKey(f) ==
    f.ek \in {"provider_key_posture.state", "provider_key_posture.vetoed"}

\* the event carries field f with a value the code's isinstance test accepts
Accepts(event, f) ==
    /\ InProviderKey(f) => Get(event, "provider_key_posture") = "{}"
    /\ CASE f.ty = "str" -> IsStr(Get(event, f.ek))
         [] f.ty = "int" -> IsInt(Get(event, f.ek))
         [] f.ty = "bool" -> IsBool(Get(event, f.ek))

\* the same, with a value of the field's JSON type (no boolean for an integer)
WellTyped(event, f) ==
    Accepts(event, f) /\ (f.ty = "int" => TypeOf(Get(event, f.ek)) = "int")

\* the event carries a field that yields a change record on every application
CarriesAlways(event) ==
    IsStr(Get(event, "fallback_backend")) \/ Get(event, "trust_event") = "{}"

AlwaysRecords == {"fallback_backend", "trust_event"}

\* how a change record shows value v of field f
Shown(f, v) ==
    CASE f.ek = "attestation_status" -> Normalize(v)
      [] f.ek \in {"evaluation_required", "governance_required"} ->
            IF v = "true" THEN "required" ELSE "clear"
      [] f.ek = "stale" -> IF v = "true" THEN "stale" ELSE "fresh"
      [] f.ek = "provider_key_posture.vetoed" ->
            IF v = "true" THEN "vetoed" ELSE "cleared"
      [] OTHER -> PyStr(v)

Entity(entry) == KeyOf(Get(entry.event, "server_id"))

SummaryBefore(entry) ==
    IF Entity(entry) \in DOMAIN entry.pre THEN entry.pre[Entity(entry)] ELSE EmptyMap

\* the lines printed so far, when every print call came from the renderer
HumanMode == ~as_json

----------------------------------------------------------------------------
(* C1 *)

ScenarioC1 ==
    /\ HumanMode /\ ~use_color
    /\ pulled = 2 /\ Len(log) = 2
    /\ log[1].event = Ev("9", ("type" :> "decision") @@ ("attestation_status" :> "trusted"))
    /\ log[2].event = Ev("9", ("type" :> "attestation")
                              @@ ("attestation_status" :> "untrusted")
                              @@ ("instance_id" :> "vm-alpha"))

\* C1 as stated: fed the two events of the scenario, the policy watch prints
\* exactly two lines and the second holds `attestation trusted -> untrusted`
\* and `Active instance: vm-alpha`.
C1_AsStated ==
    ScenarioC1 =>
        /\ Len(out) = 2
        /\ Contains(out[2].text, <<"attestation", "trusted", "->", "untrusted">>)
        /\ Contains(out[2].text, <<"Active", "instance:", "vm-alpha">>)

\* C1 (amended): fed the two events of the scenario, the policy watch prints
\* exactly two lines and the second holds `attestation untrusted (was trusted)`
\* and `Active instance: vm-alpha`.
C1_Scenario ==
    ScenarioC1 =>
        /\ Len(out) = 2
        /\ Contains(out[2].text, <<"attestation", "untrusted", "(was", "trusted", ")">>)
        /\ Contains(out[2].text, <<"Active", "instance:", "vm-alpha">>)

C1_Witness == ScenarioC1 /\ Len(out) = 2 /\ out[2].kind = "line"

----------------------------------------------------------------------------
(* C2 *)

\* the event gives no diffed field a value other than the one recorded
RepeatsKnownValues(entry) ==
    \A f \in DiffedFields :
        (Accepts(entry.event, f) /\ f.sk \in DOMAIN SummaryBefore(entry))
            => PyEq(Get(entry.event, f.ek), SummaryBefore(entry)[f.sk])

\* the event carries a diffed field the entity's posture did not hold
BringsNewField(entry) ==
    \E f \in DiffedFields :
        Accepts(entry.event, f) /\ f.sk \notin DOMAIN SummaryBefore(entry)

Quiet(event) == ~CarriesAlways(event) /\ Len(FilterSignalNotes(event)) = 0

LinesOf(key) ==
    {i \in 1..Len(log) :
        log[i].accepted /\ Entity(log[i]) = key /\ Len(log[i].rendered) > 0}

\* C2 as stated: when no diffed field ever takes a value different from its
\* first one, the policy watch prints exactly one line per entity key (read
\* in the claim's favour: every event carries a diffed field).
C2_AsStated ==
    (/\ HumanMode
     /\ \A i \in 1..Len(log) :
            /\ RepeatsKnownValues(log[i])
            /\ \E f \in DiffedFields : Accepts(log[i].event, f))
        => \A i \in 1..Len(log) :
               log[i].accepted => Cardinality(LinesOf(Entity(log[i]))) = 1

\* C2 (amended): in human mode, an accepted event that gives no diffed field a
\* new value and carries no fallback_backend, trust_event or notable note
\* prints a line exactly when it carries a diffed field the entity's posture
\* did not hold yet; an event that only repeats recorded fields prints nothing.
C2_OneLinePerNewField ==
    \A i \in 1..Len(log) :
        (log[i].accepted /\ RepeatsKnownValues(log[i]) /\ Quiet(log[i].event))
            => /\ (Len(log[i].rendered) > 0) = BringsNewField(log[i])
               /\ Len(log[i].changes) =
                      Cardinality({f \in DiffedFields :
                          Accepts(log[i].event, f)
                              /\ f.sk \notin DOMAIN SummaryBefore(log[i])})

\* a later event of an entity repeats a recorded field and prints nothing,
\* after the first one printed the entity's line
C2_Witness ==
    /\ HumanMode /\ Len(log) = 2 /\ Len(out) = 1
    /\ log[1].accepted /\ log[2].accepted /\ Entity(log[1]) = Entity(log[2])
    /\ Len(log[1].rendered) > 0 /\ Len(log[2].rendered) = 0
    /\ \E f \in DiffedFields : Accepts(log[2].event, f)
    /\ RepeatsKnownValues(log[2]) /\ Quiet(log[2].event)

----------------------------------------------------------------------------
(* C3 *)

\* the diffed fields in which two events differ
Differing(e1, e2) ==
    {f \in DiffedFields :
        \/ Accepts(e1, f) # Accepts(e2, f)
        \/ Accepts(e1, f) /\ Get(e1, f.ek) # Get(e2, f.ek)}

\* entries i and i+1 are accepted events of one entity that differ in exactly
\* the diffed field f, which both carry
ConsecutivePair(i, f) ==
    /\ i + 1 <= Len(log)
    /\ log[i].accepted /\ log[i + 1].accepted
    /\ Entity(log[i]) = Entity(log[i + 1])
    /\ Differing(log[i].event, log[i + 1].event) = {f}
    /\ WellTyped(log[i].event, f) /\ WellTyped(log[i + 1].event, f)

RecordsOf(entry, keys) ==
    {j \in 1..Len(entry.changes) : entry.changes[j].field \in keys}

C3_WitnessNoArrow ==
    \E f \in DiffedFields :
        /\ ~f.arrow /\ ConsecutivePair(1, f)
        /\ Len(log[2].changes) = 1 /\ Len(out) = 2

----------------------------------------------------------------------------
(* C4 *)

SameTwice(i) ==
    /\ i + 1 <= Len(log)
    /\ log[i].accepted
    /\ log[i + 1].event = log[i].event

----------------------------------------------------------------------------
(* C5 *)

\* the server_id is missing (or null) or is no JSON integer
MalformedId(event) == TypeOf(Get(event, "server_id")) # "int"

\* C5: an event whose server_id is missing or is not an integer raises
\* nothing and leaves the whole posture state unchanged.
C5_MalformedLeavesState ==
    \A i \in 1..Len(log) :
        MalformedId(log[i].event) =>
            /\ log[i].post = log[i].pre
            /\ Len(log[i].rendered) = 0
            /\ pc # "crashed"

----------------------------------------------------------------------------
(* C6 *)

\* the raw line holds nothing but whitespace, or begins with a colon
BlankOrComment(raw_line) == Len(Strip(raw_line)) = 0 \/ raw_line[1] = ":"

\* C6: a stream whose lines are all blank or begin with a colon makes the
\* decoder yield no payload, and every watch command print no line.
C6_FramingOnlyPrintsNothing ==
    (\A i \in 1..Len(lines) : BlankOrComment(lines[i])) =>
        pulled = 0 /\ Len(out) = 0 /\ Len(log) = 0

C6_Witness ==
    /\ pc = "done" /\ Len(lines) >= 2
    /\ \A i \in 1..Len(lines) : BlankOrComment(lines[i])
    /\ \E i \in 1..Len(lines) : Contains(lines[i], <<"data:">>)
    /\ \E i \in 1..Len(lines) : Len(Strip(lines[i])) = 0

----------------------------------------------------------------------------
(* C7 *)

Refused == pc # "idle" /\ response.status \notin 200..299

\* what the server said went wrong: its error member, or the body as sent
ServerErrorText ==
    IF response.body.parsed = "object" /\ "error" \in DOMAIN response.body.event
    THEN <<response.body.event["error"]>>
    ELSE SelectSeq(response.body.text, LAMBDA t : t \notin {"\"", "[", "]", "{", "}"})

\* C7 as stated: when the subscribe request returns a non-2xx status S the
\* command exits with status S, prints an error message that contains S and
\* the server's error text, and prints no event line.
C7_AsStated ==
    Refused =>
        /\ exit_code = response.status
        /\ Len(out) = 0
        /\ \E i \in 1..Len(err) :
               /\ Contains(err[i].text, <<ToString(response.status)>>)
               /\ Contains(err[i].text, ServerErrorText)

----------------------------------------------------------------------------
(* C8 *)

\* C8: a user interrupt that arrives while a watch command is streaming ends
\* the loop with no exception escaping the handler and exit code 0, and the
\* lines printed before the interrupt stay printed.
C8_InterruptExitsZero ==
    [][(pc = "streaming" /\ pc' = "interrupted") =>
           /\ exit_code' = 0
           /\ err' = err
           /\ out' = out
           /\ conn' = "closed"]_vars

C8_Witness ==
    /\ pc = "interrupted" /\ exit_code = 0
    /\ Len(out) >= 2 /\ Len(err) = 0

----------------------------------------------------------------------------
(* C9 *)

BudgetSet == cmd = "marketplace" /\ max_events >= 1

\* C9: with an event-count budget N >= 1, marketplace watch prints one line
\* for each event it counts and never more than N; it stops at the very
\* event that makes the count N, having consumed N payloads, whatever the
\* number of raw lines received.
C9_StopsAtBudget ==
    BudgetSet =>
        /\ count = Len(out)
        /\ Len(out) <= max_events
        /\ (count = max_events) = (pc = "budget")
        /\ pc = "budget" => pulled = max_events /\ conn = "closed" /\ exit_code = 0

C9_Witness ==
    /\ BudgetSet /\ pc = "budget" /\ max_events = 2
    /\ Len(out) = 2 /\ pulled = 2 /\ Len(lines) > pulled

----------------------------------------------------------------------------
(* C10 *)

\* C10 as stated: with --max-events 0 the budget never stops marketplace
\* watch, and every payload the decoder delivers is printed.
C10_AsStated ==
    (cmd = "marketplace" /\ max_events = 0) =>
        pc # "budget" /\ Len(out) = pulled

----------------------------------------------------------------------------
(* C11 *)

RECURSIVE PayloadsOf(_)
\* the payloads the decoder has yielded for the raw lines read, in order
PayloadsOf(raw_lines) ==
    IF Len(raw_lines) = 0 THEN <<>>
    ELSE LET d == DecodeLine(raw_lines[1]) IN
         (IF d.yields THEN <<Loads(d.payload)>> ELSE <<>>)
             \o PayloadsOf(Tail(raw_lines))

\* the events received: the payloads that are not empty
Received == SelectSeq(PayloadsOf(lines), LAMBDA p : Len(p.text) > 0)

\* C11 as stated: in JSON mode every watch command prints exactly one line
\* for each received event, the JSON of the event on a single line with no
\* added formatting, or the raw payload when it is no valid JSON.
C11_AsStated ==
    (as_json /\ pc # "crashed") =>
        /\ Len(out) = Len(Received)
        /\ \A i \in 1..Len(out) :
               /\ PhysicalLines(out[i].text) = 1
               /\ Received[i].parsed = "invalid" => out[i].text = Received[i].text

----------------------------------------------------------------------------
(* C12 *)

\* C12: policy watch applies the events to the posture state and renders
\* them strictly in the order the decoder delivers them: in every state all
\* payloads pulled so far are handled, the i-th event handled is the i-th
\* event delivered, each is reconciled against the state the one before it
\* left, and the printed lines are the lines of the events that rendered
\* one, in that order, one line per event.
C12_InOrder ==
    (cmd = "policy" /\ ~as_json) =>
        LET events == SelectSeq(Received, LAMBDA p : p.parsed = "object")
            shown == SelectSeq(log, LAMBDA e : Len(e.rendered) > 0)
        IN /\ pulled = Len(PayloadsOf(lines))
           /\ Len(log) = Len(events)
           /\ \A i \in 1..Len(log) :
                  /\ log[i].event = events[i].event
                  /\ log[i].pre = (IF i = 1 THEN EmptyMap ELSE log[i - 1].post)
           /\ Len(log) > 0 => state = log[Len(log)].post
           /\ Len(out) = Len(shown)
           /\ \A j \in 1..Len(out) : out[j] = Printed("line", shown[j].rendered)

C12_Witness ==
    /\ cmd = "policy" /\ ~as_json /\ Len(log) = 3 /\ Len(out) = 3
    /\ log[1].event = log[3].event /\ log[1].event # log[2].event
    /\ out[1] # out[3] /\ out[2] # out[3]

----------------------------------------------------------------------------
(* C13 *)

\* the event fields from which the reconciler takes stored field sk
Feeds(sk) ==
    CASE sk = "active_instance" -> {"instance_id"}
      [] sk = "trust_event_id" -> {"trust_event.id", "trust_event_id"}
      [] sk = "trust_freshness_deadline" ->
            {"freshness_expires_at", "trust_freshness_deadline"}
      [] sk = "provider_key_state" -> {"provider_key_posture.state"}
      [] sk = "provider_key_vetoed" -> {"provider_key_posture.vetoed"}
      [] sk = "provider_key_rotation_due_at" -> {"provider_key_posture.rotation_due_at"}
      [] sk = "provider_key_notes" -> {"provider_key_posture.notes"}
      [] sk = "provider_key_provider_id" -> {"provider_key_posture.provider_id"}
      [] OTHER -> {sk}

Carries(event, sk) == Feeds(sk) \cap DOMAIN event # {}

\* C13 as stated: after any accepted event the fields stored for its entity
\* contain every field stored before it, every field stored anew is carried
\* by the event, and every field the event does not carry keeps its value.
C13_AsStated ==
    \A i \in 1..Len(log) :
        log[i].accepted =>
            LET before == SummaryBefore(log[i])
                after == log[i].post[Entity(log[i])]
            IN /\ DOMAIN before \subseteq DOMAIN after
               /\ \A sk \in DOMAIN after \ DOMAIN before : Carries(log[i].event, sk)
               /\ \A sk \in DOMAIN before :
                      ~Carries(log[i].event, sk) => after[sk] = before[sk]

----------------------------------------------------------------------------
(* C14 *)

\* the entity keys a log entry's event is for: its server_id when that is a
\* JSON integer, none when the identity is malformed
KeysOf(entry) ==
    IF MalformedId(entry.event) THEN {} ELSE {Get(entry.event, "server_id")}

\* C14 as stated: processing any policy event, well-formed or malformed,
\* leaves the posture map of every entity key but the event's own as it was,
\* and the loop goes on to the next event.
C14_AsStated ==
    /\ \A i \in 1..Len(log) :
           \A k \in (DOMAIN log[i].pre \cup DOMAIN log[i].post) \ KeysOf(log[i]) :
               /\ k \in DOMAIN log[i].pre /\ k \in DOMAIN log[i].post
               /\ log[i].post[k] = log[i].pre[k]
    /\ ~as_json => pc # "crashed"

----------------------------------------------------------------------------
(* C15 *)

\* the string fields the reconciler stores without diffing them; pk: the
\* field lies inside provider_key_posture
ContextFields ==
    { [ek |-> "candidate_backend", sk |-> "candidate_backend", pk |-> FALSE],
      [ek |-> "instance_id", sk |-> "active_instance", pk |-> FALSE],
      [ek |-> "trust_previous_lifecycle_state",
       sk |-> "trust_previous_lifecycle_state", pk |-> FALSE],
      [ek |-> "trust_provenance_ref", sk |-> "trust_provenance_ref", pk |-> FALSE],
      [ek |-> "provider_key_posture.rotation_due_at",
       sk |-> "provider_key_rotation_due_at", pk |-> TRUE],
      [ek |-> "provider_key_posture.provider_id",
       sk |-> "provider_key_provider_id", pk |-> TRUE] }

\* a note the claims call notable: a string that starts with vm:attestation,
\* attestation: or provider-key:, or contains fallback
Notable(note) ==
    /\ \A j \in 1..Len(note) : IsStr(note[j])
    /\ \/ note[1] \in {"vm:attestation", "attestation:", "provider-key:"}
       \/ \E j \in 1..Len(note) : note[j] = "fallback"

NotableNotes(event) ==
    IF "notes.items" \in DOMAIN event
    THEN SelectSeq(event["notes.items"], Notable) ELSE <<>>

\* the posture of the entry's entity after the event
SummaryAfter(entry) == entry.post[Entity(entry)]

----------------------------------------------------------------------------
(* C16 *)

\* C16: an accepted policy event whose notes hold at least one notable note
\* always renders exactly one line, which ends with those notes in their
\* order, even when no field changed.
C16_NotableNotesPrint ==
    \A i \in 1..Len(log) :
        (log[i].accepted /\ Len(NotableNotes(log[i].event)) > 0) =>
            LET notes == NotableNotes(log[i].event)
                line == log[i].rendered
                tail == Join(notes, ",")
            IN /\ Len(line) > Len(tail)
               /\ SubSeq(line, Len(line) - Len(tail) + 1, Len(line)) = tail
               /\ \A j \in 1..Len(notes) : Contains(line, notes[j])
               /\ PhysicalLines(line) = 1
               /\ i = Len(log) /\ HumanMode =>
                      /\ Len(out) >= 1 /\ out[Len(out)] = Printed("line", line)
                      /\ Len(out) = 1 + Len(SelectSeq(SubSeq(log, 1, i - 1),
                                                LAMBDA e : Len(e.rendered) > 0))

C16_Witness ==
    /\ Len(log) = 2 /\ Len(out) = 2
    /\ log[2].event = log[1].event
    /\ Len(log[2].changes) = 0 /\ Len(NotableNotes(log[2].event)) = 2
    /\ \E j \in 1..2 : NotableNotes(log[2].event)[j][1] = "provider-key:"

----------------------------------------------------------------------------
(* C17 *)

\* C17 as stated, for a stream whose payloads are all invalid JSON: every
\* watch loop handles each of them without failing and goes on, printing the
\* raw payload as the line in JSON mode and in human mode alike, and doing
\* no structured processing.
C17_AsStated ==
    (/\ Len(Received) >= 1
     /\ \A i \in 1..Len(Received) : Received[i].parsed = "invalid") =>
        /\ pc # "crashed"
        /\ state = EmptyMap /\ Len(log) = 0
        /\ Len(out) = Len(Received)
        /\ \A i \in 1..Len(out) : out[i].text = Received[i].text

----------------------------------------------------------------------------
(* C18 *)

\* C18 as stated: on a non-2xx status at subscription time the decoder
\* raises an APIError that carries the status code and the response body,
\* whatever the shape of the body, and yields no payload before it.
C18_AsStated ==
    Refused =>
        /\ pc = "errored"
        /\ pulled = 0 /\ Len(lines) = 0
        /\ exit_code = response.status
        /\ as_json /\ response.body.value # None =>
               \E i \in 1..Len(err) : err[i] = Printed("payload", response.body.text)

----------------------------------------------------------------------------
(* C19 *)

\* what the claim says a raw line yields: a line beginning with data: yields
\* the rest of the line, less one following space when there is one; any
\* other line yields nothing
ClaimedPayload(raw_line) ==
    IF Len(raw_line) >= 1 /\ raw_line[1] = "data:" THEN
        LET rest == Tail(raw_line) IN
        [yields |-> TRUE,
         payload |-> IF Len(rest) >= 1 /\ rest[1] = " " THEN Tail(rest) ELSE rest]
    ELSE [yields |-> FALSE, payload |-> <<>>]

\* C19 as stated: the decoder yields exactly one payload for each line that
\* begins with data:, the rest of the line less a single following space,
\* and nothing for a line of any other shape.
C19_AsStated ==
    /\ pulled = Len(SelectSeq(lines, LAMBDA l : ClaimedPayload(l).yields))
    /\ \A i \in 1..Len(lines) : DecodeLine(lines[i]) = ClaimedPayload(lines[i])

----------------------------------------------------------------------------
(* C20 *)

\* the trust events received that render a line
RenderedTrustEvents ==
    SelectSeq(Received, LAMBDA p :
        /\ p.parsed = "object"
        /\ ~RenderTrustEvent(p.event).raises
        /\ Len(RenderTrustEvent(p.event).text) > 0)

\* C20: every line trust watch renders for an event that carries an integer
\* version ends with the segment v<version>, whatever events came before:
\* the watch keeps no state, and a repeated version is printed again.
C20_VersionVerbatim ==
    (cmd = "trust" /\ ~as_json) =>
        /\ state = EmptyMap
        /\ Len(out) = Len(RenderedTrustEvents)
        /\ \A j \in 1..Len(out) :
               LET event == RenderedTrustEvents[j].event
                   line == out[j].text
               IN TypeOf(Get(event, "version")) = "int" =>
                      /\ Len(line) >= 2
                      /\ line[Len(line)] = "v" \o event["version"]
                      /\ line[Len(line) - 1] = "|"

C20_Witness ==
    /\ cmd = "trust" /\ ~as_json /\ Len(out) = 3
    /\ out[1] = out[3] /\ out[1] # out[2]
    /\ out[1].text[Len(out[1].text)] = "v2"
    /\ "version" \notin DOMAIN RenderedTrustEvents[2].event

----------------------------------------------------------------------------
(* C21 *)

\* a remediation event with a run id and an instance id whose body is a log
\* event
IsLogEvent(p) ==
    /\ p.parsed = "object"
    /\ Get(p.event, "run_id") # None /\ Get(p.event, "instance_id") # None
    /\ Get(p.event, "event") = "{}" /\ Get(p.event, "event.event") = "log"

RECURSIVE RemediationOutput(_)
\* what remediation watch prints in human mode for the payloads received:
\* the raw text of an invalid payload, the lines of an event
RemediationOutput(payloads) ==
    IF Len(payloads) = 0 THEN <<>>
    ELSE (CASE payloads[1].parsed = "invalid" -> <<payloads[1].text>>
            [] payloads[1].parsed = "object" -> RenderRemediationEvent(payloads[1].event)
            [] OTHER -> <<>>)
         \o RemediationOutput(Tail(payloads))

\* C21: every remediation event with a run id and an instance id whose body
\* is a log event prints exactly one line, which holds the stream and the
\* message, whatever was printed before it.
C21_LogLinesAlwaysPrint ==
    (cmd = "remediation" /\ ~as_json) =>
        /\ [i \in 1..Len(out) |-> out[i].text] = RemediationOutput(Received)
        /\ \A i \in 1..Len(Received) :
               IsLogEvent(Received[i]) =>
                   LET printed == RenderRemediationEvent(Received[i].event) IN
                   /\ Len(printed) = 1
                   /\ Contains(printed[1], <<"[", Received[i].event["event.stream"], "]",
                                             Received[i].event["event.message"]>>)

C21_Witness ==
    /\ cmd = "remediation" /\ ~as_json
    /\ Len(Received) = 3 /\ \A i \in 1..3 : IsLogEvent(Received[i])
    /\ Len(out) = 3 /\ out[1] = out[2] /\ out[2] = out[3]

----------------------------------------------------------------------------
(* C22 *)

\* a remediation event with a run id and an instance id whose body is a
\* status event
IsStatusEvent(p) ==
    /\ p.parsed = "object"
    /\ Get(p.event, "run_id") # None /\ Get(p.event, "instance_id") # None
    /\ Get(p.event, "event") = "{}" /\ Get(p.event, "event.event") = "status"

\* the lines printed for status event `event` are, in this order: a
\* remediation-gate line if the gate has hooks, a line for each accelerator
\* gate that Counted holds of, a policy-feedback line if there is feedback,
\* a line for each accelerator, and one status line
StatusOutputIs(event, Counted(_)) ==
    LET printed == RenderRemediationEvent(event)
        \* what follows the prefix `run R (instance I)`
        Rest(line) == SubSeq(line, 6, Len(line))
        Kind(line) ==
            CASE SubSeq(Rest(line), 1, 3) = <<"remediation", "gate", "->">> -> 1
              [] SubSeq(Rest(line), 1, 2) = <<"accelerator", "gate">> -> 2
              [] SubSeq(Rest(line), 1, 3) = <<"policy", "feedback", "->">> -> 3
              [] SubSeq(Rest(line), 1, 2) = <<"status", "->">> -> 5
              [] OTHER -> 4
        Number(k) == Cardinality({i \in 1..Len(printed) : Kind(printed[i]) = k})
        gated == Get(event, "policy_gate") = "{}"
    IN /\ \A i \in 1..Len(printed) - 1 : Kind(printed[i]) <= Kind(printed[i + 1])
       /\ Number(1) = IF gated /\ Len(StringList(event, "policy_gate.remediation_hooks")) > 0
                      THEN 1 ELSE 0
       /\ Number(2) = IF gated
                      THEN Len(SelectSeq(Entries(event, "policy_gate.accelerator_gates"),
                                         Counted))
                      ELSE 0
       /\ Number(3) = IF Len(StringList(event, "policy_feedback")) > 0 THEN 1 ELSE 0
       /\ Number(4) = Len(Entries(event, "accelerators"))
       /\ Number(5) = 1
       /\ Contains(printed[Len(printed)],
                   <<"status", "->", PyStr(Get(event, "event.status"))>>)

\* C22 as stated: the accelerator gates that get a line are those that have
\* hooks or reasons.
C22_AsStated ==
    (cmd = "remediation" /\ ~as_json) =>
        \A i \in 1..Len(Received) :
            IsStatusEvent(Received[i]) =>
                StatusOutputIs(Received[i].event,
                    LAMBDA g : Len(StringList(g, "hooks"))
                                   + Len(StringList(g, "reasons")) > 0)

\* C22 (amended): the accelerator gates that get a line are those that have
\* a string accelerator id and hooks or reasons; the rest of the order is as
\* stated, and the status line is always printed, last.
C22_StatusOrder ==
    (cmd = "remediation" /\ ~as_json) =>
        /\ [i \in 1..Len(out) |-> out[i].text] = RemediationOutput(Received)
        /\ \A i \in 1..Len(Received) :
               IsStatusEvent(Received[i]) =>
                   StatusOutputIs(Received[i].event,
                       LAMBDA g : /\ IsStr(Get(g, "accelerator_id"))
                                  /\ Len(StringList(g, "hooks"))
                                         + Len(StringList(g, "reasons")) > 0)

C22_Witness ==
    /\ cmd = "remediation" /\ ~as_json
    /\ Len(Received) = 1 /\ IsStatusEvent(Received[1])
    /\ Len(out) = 6
    /\ Contains(out[1].text, <<"remediation", "gate", "->">>)
    /\ Contains(out[2].text, <<"accelerator", "gate", "accel-1">>)
    /\ Contains(out[3].text, <<"policy", "feedback", "->">>)
    /\ Contains(out[6].text, <<"status", "->", "completed">>)

----------------------------------------------------------------------------
(* C23 *)

\* the watch ended on an error: a refused subscription, a transport failure,
\* or an exception out of the handler
Errored == pc \in {"errored", "failed", "crashed"}

\* C23: a stream-level error ends the watch loop and nothing is retried: an
\* invocation that has got a response never sends a second request, no step
\* is taken once the watch has ended on an error, and a refused subscription
\* leaves no payload pulled and no line printed.
C23_NoRetry ==
    [][/\ ~Errored
       /\ response.status # 0 => response' = response /\ pc' # "idle"
       /\ pc' = "errored" => pulled' = 0 /\ out' = <<>>]_vars

C23_Witness ==
    /\ pc = "failed" /\ conn = "closed" /\ exit_code = 1
    /\ Len(out) >= 1 /\ pulled >= 1 /\ Len(lines) < MaxLines

----------------------------------------------------------------------------
(* C24 *)

----------------------------------------------------------------------------
(* C25 *)

\* C25: in human mode an event whose identity (for policy watch, an integer
\* server_id) is missing or of the wrong type prints no line at all, and
\* the event after it is reconciled against the posture state as it was
\* before the malformed event arrived.
C25_AsStated ==
    HumanMode =>
        \A i \in 1..Len(log) :
            MalformedId(log[i].event) =>
                /\ log[i].rendered = <<>>
                /\ \A j \in 1..Len(log) : j = i + 1 => log[j].pre = log[i].pre

----------------------------------------------------------------------------
(* C26 *)

----------------------------------------------------------------------------
(* C27 *)

\* the event holds, beside its server_id, context fields only
ContextOnly(event) ==
    /\ DOMAIN event # {"server_id"}
    /\ DOMAIN event \subseteq
           {"server_id", "candidate_backend", "freshness_expires_at",
            "trust_freshness_deadline", "trust_provenance_ref", "trust_provenance",
            "trust_previous_lifecycle_state", "provider_key_posture",
            "provider_key_posture.rotation_due_at", "provider_key_posture.notes",
            "provider_key_posture.notes.items", "provider_key_posture.provider_id"}

\* C27 as stated: an accepted policy event that holds context fields only
\* stores the values it carries as they are, yields no change record and
\* prints nothing.
C27_AsStated ==
    \A i \in 1..Len(log) :
        (log[i].accepted /\ ContextOnly(log[i].event)) =>
            LET event == log[i].event
                after == SummaryAfter(log[i])
            IN /\ Len(log[i].changes) = 0 /\ Len(log[i].rendered) = 0
               /\ \A ek \in DOMAIN event \ {"server_id", "provider_key_posture",
                                            "provider_key_posture.notes",
                                            "provider_key_posture.notes.items"} :
                      \E sk \in DOMAIN after : ek \in Feeds(sk) /\ after[sk] = event[ek]
               /\ "provider_key_posture.notes.items" \in DOMAIN event =>
                      Get(after, "provider_key_notes")
                          = event["provider_key_posture.notes.items"]

\* C27 (amended): an accepted policy event that holds context fields only
\* yields no change record and prints nothing, whether the values are new
\* or changed.  It stores the candidate backend, provenance ref, previous
\* lifecycle state, rotation-due and provider id that are strings, the first
\* non-empty of freshness_expires_at and trust_freshness_deadline when it is
\* a string, the provenance payload when it is not null, and of the
\* provider-key notes the string entries; every other stored field keeps its
\* value.
C27_ContextIsSilent ==
    \A i \in 1..Len(log) :
        (log[i].accepted /\ ContextOnly(log[i].event)) =>
            LET event == log[i].event
                before == SummaryBefore(log[i])
                after == SummaryAfter(log[i])
                freshness == Or(Get(event, "freshness_expires_at"),
                                Get(event, "trust_freshness_deadline"))
                inKey == Get(event, "provider_key_posture") = "{}"
            IN /\ Len(log[i].changes) = 0 /\ Len(log[i].rendered) = 0
               /\ (HumanMode /\ i = Len(log)) =>
                      Len(out) = Len(SelectSeq(SubSeq(log, 1, i - 1),
                                               LAMBDA e : Len(e.rendered) > 0))
               /\ \A f \in ContextFields :
                      Get(after, f.sk) =
                          IF IsStr(Get(event, f.ek)) /\ (f.pk => inKey)
                          THEN event[f.ek] ELSE Get(before, f.sk)
               /\ Get(after, "trust_freshness_deadline") =
                      IF IsStr(freshness) THEN freshness
                      ELSE Get(before, "trust_freshness_deadline")
               /\ Get(after, "trust_provenance") =
                      IF Get(event, "trust_provenance") # None
                      THEN event["trust_provenance"] ELSE Get(before, "trust_provenance")
               /\ Get(after, "provider_key_notes") =
                      IF inKey /\ Get(event, "provider_key_posture.notes") = "[]"
                      THEN SelectSeq(event["provider_key_posture.notes.items"], IsStr)
                      ELSE Get(before, "provider_key_notes")
               /\ \A sk \in DOMAIN before \cup DOMAIN after :
                      ~Carries(event, sk) =>
                          sk \in DOMAIN before /\ Get(after, sk) = before[sk]

\* two context-only events of an entity: the second gives a stored context
\* field another value, and nothing was printed
C27_Witness ==
    /\ HumanMode /\ Len(log) = 2 /\ Len(out) = 0
    /\ log[1].accepted /\ log[2].accepted /\ Entity(log[1]) = Entity(log[2])
    /\ ContextOnly(log[1].event) /\ ContextOnly(log[2].event)
    /\ \E f \in ContextFields :
           /\ f.sk \in DOMAIN SummaryBefore(log[2])
           /\ IsStr(Get(log[2].event, f.ek))
           /\ SummaryBefore(log[2])[f.sk] # log[2].event[f.ek]
           /\ SummaryAfter(log[2])[f.sk] = log[2].event[f.ek]

----------------------------------------------------------------------------
(* C28 *)

\* C28 as stated: for every entity key and every diffed field the posture
\* holds the value of the most recent event with that integer server_id
\* that carried the field with a value of the field's type, whether or not
\* that event printed a line; and a rendered line that shows `Latest
\* posture` shows the attestation status stored after the event.
C28_AsStated ==
    /\ \A k \in DOMAIN state : \A f \in DiffedFields :
           LET carried == {j \in 1..Len(log) :
                              /\ ~MalformedId(log[j].event)
                              /\ log[j].event["server_id"] = k
                              /\ WellTyped(log[j].event, f)}
           IN carried # {} =>
                  LET last == CHOOSE j \in carried : \A m \in carried : m <= j
                  IN Get(state[k], f.sk) = log[last].event[f.ek]
    /\ \A i \in 1..Len(log) :
           (Len(log[i].rendered) > 0
               /\ IsStr(Get(SummaryAfter(log[i]), "attestation_status")))
               => Contains(log[i].rendered,
                      <<"Latest", "posture:", SummaryAfter(log[i])["attestation_status"]>>)

----------------------------------------------------------------------------
(* C29 *)

\* C29: in every posture the policy watch reaches, before and after each
\* event, an entity's active_instance and instance_id are both absent or
\* both present and equal, and a rendered line of an entity with an
\* instance shows that instance as `Active instance`.
C29_InstancePair ==
    LET Paired(st) ==
            \A k \in DOMAIN st :
                /\ ("active_instance" \in DOMAIN st[k]) = ("instance_id" \in DOMAIN st[k])
                /\ Get(st[k], "active_instance") = Get(st[k], "instance_id")
    IN /\ Paired(state)
       /\ \A i \in 1..Len(log) :
              /\ Paired(log[i].pre) /\ Paired(log[i].post)
              /\ (log[i].accepted /\ Len(log[i].rendered) > 0
                      /\ "instance_id" \in DOMAIN SummaryAfter(log[i]))
                     => Contains(log[i].rendered,
                            <<"Active", "instance:", SummaryAfter(log[i])["instance_id"]>>)

\* an entity's instance was recorded and then replaced by another one
C29_Witness ==
    /\ HumanMode /\ Len(log) = 2 /\ Len(out) = 2
    /\ Entity(log[1]) = Entity(log[2])
    /\ Get(SummaryBefore(log[2]), "instance_id") = "vm-alpha"
    /\ Get(SummaryAfter(log[2]), "instance_id") = "vm-beta"
    /\ Get(SummaryAfter(log[2]), "active_instance") = "vm-beta"

----------------------------------------------------------------------------
(* C30 *)

\* C30 as stated: called with integer offset and limit against a server
\* that sends finitely many pages with a `next` link and then pages that
\* report an integer total, paginate comes to its end, for every limit,
\* 0 included.
C30_AsStated == <>(paging.pc = "done")

====
